---- MODULE Spec2Model ----
(***************************************************************************)
(* A model of the cash-flow decision engine of finance-mcp-server:         *)
(*   src/src/models/working_capital.py    (WorkingCapitalOptimizer)        *)
(*   src/src/models/accounts_payable.py   (AccountsPayableOptimizer)       *)
(*   src/src/models/accounts_receivable.py (AccountsReceivableOptimizer)   *)
(*                                                                         *)
(* Conventions.                                                            *)
(*  - Money is an integer number of dollars.  The amounts drawn for the    *)
(*    storage collaborator are multiples of 10000, so every product with   *)
(*    a percentage used by the code is an exact integer; the planner's     *)
(*    buffer 100000 * 1.5^c * 0.7^a is an exact integer while c + a <= 5.  *)
(*    The code computes in binary floating point; the model computes the   *)
(*    same expressions over exact numbers.                                 *)
(*  - A date is the integer number of days from today (today = 0), so      *)
(*    (due_date - today).days is the date itself.                          *)
(*  - An importance score is an integer number of tenths (5 is 0.5).       *)
(*  - An objective weight stored by the planner is an integer number of    *)
(*    1/WScale units (v / total rounded to the nearest unit).              *)
(*  - A discount rate is a whole percent.  Invoice priorities are whole    *)
(*    numbers: for scores in tenths, rates in whole percents and amounts   *)
(*    that are multiples of 5000 the code's floating-point sums are exact. *)
(*  - SpecWC, SpecWeights, SpecSetters, SpecAP and SpecAR run the          *)
(*    handlers one call at a time; SpecConc runs the optimize calls        *)
(*    statement by statement next to a thread calling the setters.         *)
(***************************************************************************)
EXTENDS Integers, Sequences, FiniteSets, TLC

VARIABLES
    forecast_data,       \* rows the storage collaborator returns for get_cash_flow_forecast
    min_cash_buffer,     \* WorkingCapitalOptimizer.min_cash_buffer
    objective_weights,   \* WorkingCapitalOptimizer.objective_weights
    wc_result,           \* what the last WorkingCapitalOptimizer.optimize call returned (or raised)
    wc_prev,             \* what the call before it returned
    wc_calls,            \* number of optimize calls made on the planner
    nConservative,       \* number of them made with scenario 'conservative'
    nAggressive,         \* number of them made with scenario 'aggressive'
    ow_last,             \* the last set_objective_weights call: its input and what it raised
    ap_invoices,         \* rows the collaborator returns for get_invoices_by_type('AP')
    ar_invoices,         \* rows the collaborator returns for get_invoices_by_type('AR')
    supplier_importance, \* AccountsPayableOptimizer.supplier_importance
    customer_importance, \* AccountsReceivableOptimizer.customer_importance
    set_last,            \* the last importance setter call: its arguments and whether it raised
    ap_result,           \* what the last optimize_payment_schedule call returned
    ap_run,              \* an optimize_payment_schedule call in progress on a thread
    ar_result,           \* what the last optimize_collection_strategy call returned
    ar_run,              \* an optimize_collection_strategy call in progress on a thread
    wc_run               \* the WorkingCapitalOptimizer.optimize calls in progress, by thread

vars == <<forecast_data, min_cash_buffer, objective_weights, wc_result, wc_prev,
          wc_calls, nConservative, nAggressive, ow_last, ap_invoices, ar_invoices,
          supplier_importance, customer_importance, set_last,
          ap_result, ap_run, ar_result, ar_run, wc_run>>

dbVars == <<forecast_data, ap_invoices, ar_invoices>>
impVars == <<supplier_importance, customer_importance, set_last>>
apVars == <<ap_result, ap_run>>
arVars == <<ar_result, ar_run>>

wcVars == <<min_cash_buffer, wc_result, wc_prev, wc_calls, nConservative, nAggressive,
            wc_run>>
owVars == <<objective_weights, ow_last>>

----------------------------------------------------------------------------
(* Bounds of the model *)

\* horizon_days of the optimizers (90 in the code), shortened
Horizon == 3
\* number of WorkingCapitalOptimizer.optimize calls explored on one planner
MaxCalls == 4
\* largest single objective weight a caller passes to set_objective_weights
MaxWeight == 2
\* longest invoice list the storage collaborator returns
MaxInvoices == 2

----------------------------------------------------------------------------
(* Program constants *)

InitialCash == 500000
DefaultMinCashBuffer == 100000

Scenarios == {"base", "conservative", "aggressive"}
RequiredKeys == {"liquidity", "financing_cost", "transaction_cost", "relationship"}
WScale == 10^8

----------------------------------------------------------------------------
(* Generic helpers *)

RECURSIVE SumSeq(_)
SumSeq(s) == IF s = <<>> THEN 0 ELSE Head(s) + SumSeq(Tail(s))

RECURSIVE MinSeq(_)
MinSeq(s) ==
    IF Len(s) = 1 THEN s[1]
    ELSE LET m == MinSeq(Tail(s)) IN IF s[1] < m THEN s[1] ELSE m

RECURSIVE SumFun(_, _)
SumFun(f, keys) ==
    IF keys = {} THEN 0
    ELSE LET k == CHOOSE x \in keys : TRUE IN f[k] + SumFun(f, keys \ {k})

\* n / d rounded to the nearest integer (d # 0)
RoundDiv(n, d) ==
    IF d < 0 THEN (2 * (0 - n) + (0 - d)) \div (2 * (0 - d))
    ELSE (2 * n + d) \div (2 * d)

\* x * pct / 100, exact for the amounts of the model
Pct(x, pct) == (x * pct) \div 100

----------------------------------------------------------------------------
(* WorkingCapitalOptimizer.get_cash_flow_forecast *)

\* pd.DataFrame(forecast_data) left-merged on 'date' onto the date range
\* today .. today + horizon_days - 1, gaps filled with 0.  A DataFrame built
\* from an empty list has no 'date' column: the merge raises KeyError.
GetCashFlowForecast(data) ==
    IF data = <<>> THEN [raised |-> TRUE, rows |-> <<>>]
    ELSE [raised |-> FALSE,
          rows |-> [i \in 1..Horizon |->
                      IF \E j \in 1..Len(data) : data[j].date = i - 1
                      THEN LET j == CHOOSE j \in 1..Len(data) : data[j].date = i - 1
                           IN [date |-> i - 1, inflow |-> data[j].inflow,
                               outflow |-> data[j].outflow]
                      ELSE [date |-> i - 1, inflow |-> 0, outflow |-> 0]]]

----------------------------------------------------------------------------
(* WorkingCapitalOptimizer.optimize *)

\* a scenario table with the conservative and aggressive rates exchanged
ScenarioAdjust_Swapped(scenario) ==
    IF scenario = "conservative" THEN [ar |-> 100, ap |-> 80, buf10 |-> 15]
    ELSE IF scenario = "aggressive" THEN [ar |-> 90, ap |-> 100, buf10 |-> 7]
    ELSE [ar |-> 95, ap |-> 95, buf10 |-> 10]

\* the scenario branch: AR/AP adjustment in percent, buffer factor in tenths
ScenarioAdjust(scenario) ==
    IF scenario = "conservative" THEN [ar |-> 90, ap |-> 100, buf10 |-> 15]
    ELSE IF scenario = "aggressive" THEN [ar |-> 100, ap |-> 80, buf10 |-> 7]
    ELSE [ar |-> 95, ap |-> 95, buf10 |-> 10]

\* self.min_cash_buffer *= factor
ScaleBuffer(buffer, scenario) == (buffer * ScenarioAdjust(scenario).buf10) \div 10

\* a simulation step that records the borrowing but forgets to clamp the balance
SimStep_NoClamp(prev, row, ar, ap, buffer) ==
    LET new_balance == prev + Pct(row.inflow, ar) - Pct(row.outflow, ap)
    IN IF new_balance < buffer
       THEN [balance |-> new_balance, borrowed |-> buffer - new_balance]
       ELSE [balance |-> new_balance, borrowed |-> 0]

\* one iteration of the simulation loop
SimStep(prev, row, ar, ap, buffer) ==
    LET inflow == Pct(row.inflow, ar)
        outflow == Pct(row.outflow, ap)
        new_balance == prev + inflow - outflow
    IN IF new_balance < buffer
       THEN [balance |-> buffer, borrowed |-> buffer - new_balance]
       ELSE [balance |-> new_balance, borrowed |-> 0]

\* for i in range(len(forecast) - 1): the rows at positions 0 .. len - 2
SimulatedRows(forecast) == 1..(Len(forecast) - 1)

RECURSIVE Simulate(_, _, _, _, _, _, _)
Simulate(forecast, i, cash_balance, borrowing, ar, ap, buffer) ==
    IF i \notin SimulatedRows(forecast)
    THEN [cash_balance |-> cash_balance, borrowing |-> borrowing]
    ELSE LET s == SimStep(cash_balance[Len(cash_balance)], forecast[i], ar, ap, buffer)
         IN Simulate(forecast, i + 1, Append(cash_balance, s.balance),
                     Append(borrowing, s.borrowed), ar, ap, buffer)

----------------------------------------------------------------------------
(* WorkingCapitalOptimizer.set_objective_weights *)

\* a validation that accepts a mapping holding any one of the required keys
SetObjectiveWeightsOutcome_AnyKey(weights, current) ==
    IF ~(\E key \in RequiredKeys : key \in DOMAIN weights)
    THEN [raised |-> "ValueError", weights |-> current]
    ELSE LET total == SumFun(weights, DOMAIN weights) IN
         IF total = 0
         THEN [raised |-> "ZeroDivisionError", weights |-> current]
         ELSE [raised |-> "none",
               weights |-> [k \in DOMAIN weights |-> RoundDiv(weights[k] * WScale, total)]]

\* a normalization that divides by the total of the required keys alone
SetObjectiveWeightsOutcome_RequiredTotal(weights, current) ==
    IF ~(\A key \in RequiredKeys : key \in DOMAIN weights)
    THEN [raised |-> "ValueError", weights |-> current]
    ELSE LET total == SumFun(weights, RequiredKeys) IN
         IF total = 0
         THEN [raised |-> "ZeroDivisionError", weights |-> current]
         ELSE [raised |-> "none",
               weights |-> [k \in DOMAIN weights |-> RoundDiv(weights[k] * WScale, total)]]

\* what the call raises and the objective_weights it leaves behind:
\* ValueError on a missing required key; v/total raises ZeroDivisionError
\* inside the comprehension, before the assignment, when the values sum to 0
SetObjectiveWeightsOutcome(weights, current) ==
    IF ~(\A key \in RequiredKeys : key \in DOMAIN weights)
    THEN [raised |-> "ValueError", weights |-> current]
    ELSE LET total == SumFun(weights, DOMAIN weights) IN
         IF total = 0
         THEN [raised |-> "ZeroDivisionError", weights |-> current]
         ELSE [raised |-> "none",
               weights |-> [k \in DOMAIN weights |-> RoundDiv(weights[k] * WScale, total)]]

SetObjectiveWeights(weights) ==
    LET out == SetObjectiveWeightsOutcome(weights, objective_weights) IN
    /\ objective_weights' = out.weights
    /\ ow_last' = [called |-> TRUE, input |-> weights, raised |-> out.raised]
    /\ UNCHANGED <<dbVars, wcVars, impVars, apVars, arVars>>

\* the mappings callers pass: the four required keys with values up to
\* MaxWeight (liquidity possibly negative), some of them with one more key,
\* and mappings that lack required keys (the empty mapping among them)
FullWeightInputs ==
    {w \in [RequiredKeys -> -1..MaxWeight] :
        \A k \in RequiredKeys \ {"liquidity"} : w[k] >= 0}
ExtraWeightInputs ==
    {[k \in RequiredKeys \cup {"other"} |-> IF k = "other" THEN 1 ELSE w[k]] :
        w \in {v \in FullWeightInputs :
                  \A k \in RequiredKeys \ {"liquidity"} : v[k] = 1}}
MissingWeightInputs ==
    {[k \in S |-> 1] : S \in (SUBSET RequiredKeys) \ {RequiredKeys}}
WeightInputs == FullWeightInputs \cup ExtraWeightInputs \cup MissingWeightInputs

----------------------------------------------------------------------------
(* Importance maps: set_supplier_importance / set_customer_importance *)

Suppliers == {"S1", "S2"}
Customers == {"K1", "K2"}
\* scores callers pass, in tenths: -0.1, 0, 0.3, 0.9, 1 and 1.1
ScoreInputs == {-1, 0, 3, 9, 10, 11}

\* the empty dict of __init__
NoImportance == [id \in {} |-> 0]

\* importance.get(id, 0.5)
Importance(map, id) == IF id \in DOMAIN map THEN map[id] ELSE 5

\* a setter that stores the score before it validates it
SetImportanceOutcome_StoreFirst(map, id, score) ==
    [raised |-> ~(0 <= score /\ score <= 10), map |-> (id :> score) @@ map]

\* what a setter raises and the map it leaves behind
SetImportanceOutcome(map, id, score) ==
    IF ~(0 <= score /\ score <= 10)
    THEN [raised |-> TRUE, map |-> map]
    ELSE [raised |-> FALSE, map |-> (id :> score) @@ map]

SetSupplierImportance(supplier_id, importance_score) ==
    LET out == SetImportanceOutcome(supplier_importance, supplier_id, importance_score) IN
    /\ supplier_importance' = out.map
    /\ set_last' = [called |-> TRUE, who |-> "supplier", id |-> supplier_id,
                    score |-> importance_score, raised |-> out.raised]
    /\ UNCHANGED customer_importance

SetCustomerImportance(customer_id, importance_score) ==
    LET out == SetImportanceOutcome(customer_importance, customer_id, importance_score) IN
    /\ customer_importance' = out.map
    /\ set_last' = [called |-> TRUE, who |-> "customer", id |-> customer_id,
                    score |-> importance_score, raised |-> out.raised]
    /\ UNCHANGED supplier_importance

----------------------------------------------------------------------------
(* Invoice rows of the storage collaborator.  A row is a function from the *)
(* keys it carries to their values: id, amount, dueDate, optionally        *)
(* earlyPaymentDate and discountRate (a whole percent), and entity, the id *)
(* the HAS_INVOICE query returns for the invoice ("None" when the query    *)
(* returns nothing).                                                       *)

NoEntity == "None"

InvoiceRow(id, amount, dueDate, entity) ==
    [id |-> id, amount |-> amount, dueDate |-> dueDate, entity |-> entity]

WithDiscount(row, earlyPaymentDate, discountRate) ==
    row @@ [earlyPaymentDate |-> earlyPaymentDate, discountRate |-> discountRate]

\* a descending sort that puts an element before the elements equal to it
RECURSIVE InsertDescending_BeforeEqual(_, _, _)
InsertDescending_BeforeEqual(e, sorted, key) ==
    IF Len(sorted) = 0 THEN <<e>>
    ELSE IF Head(sorted)[key] > e[key]
         THEN <<Head(sorted)>> \o InsertDescending_BeforeEqual(e, Tail(sorted), key)
         ELSE <<e>> \o sorted

\* list.sort(key=..., reverse=True): descending by key, equal keys keep their order
RECURSIVE InsertDescending(_, _, _)
InsertDescending(e, sorted, key) ==
    IF Len(sorted) = 0 THEN <<e>>
    ELSE IF Head(sorted)[key] >= e[key]
         THEN <<Head(sorted)>> \o InsertDescending(e, Tail(sorted), key)
         ELSE <<e>> \o sorted

RECURSIVE SortDescending(_, _)
SortDescending(s, key) ==
    IF Len(s) = 0 THEN <<>>
    ELSE InsertDescending(s[Len(s)], SortDescending(SubSeq(s, 1, Len(s) - 1), key), key)

RECURSIVE SumField(_, _)
SumField(s, key) == IF Len(s) = 0 THEN 0 ELSE Head(s)[key] + SumField(Tail(s), key)

Max(a, b) == IF a >= b THEN a ELSE b
Min(a, b) == IF a <= b THEN a ELSE b

----------------------------------------------------------------------------
(* AccountsPayableOptimizer *)

\* borrowing_rate = 0.0001 a day: 1 / BorrowingRateDen
BorrowingRateDen == 10000
APMinCashBuffer == 100000

HasDiscount(inv) == "earlyPaymentDate" \in DOMAIN inv /\ "discountRate" \in DOMAIN inv

\* a banding that ranks the second week above the first
APBasePriority_SwappedBands(days_until_due) ==
    IF days_until_due < 0 THEN 100
    ELSE IF days_until_due < 7 THEN 80
    ELSE IF days_until_due < 14 THEN 90
    ELSE IF days_until_due < 30 THEN 70
    ELSE 60

APBasePriority(days_until_due) ==
    IF days_until_due < 0 THEN 100
    ELSE IF days_until_due < 7 THEN 90
    ELSE IF days_until_due < 14 THEN 80
    ELSE IF days_until_due < 30 THEN 70
    ELSE 60

\* a discount term that still counts a discount whose date has passed
APDiscountPriority_LapsedCounts(inv) ==
    IF ~HasDiscount(inv) THEN 0
    ELSE IF inv.earlyPaymentDate < 7 THEN 20 * inv.discountRate
    ELSE 10 * inv.discountRate

\* 20 * discount_rate * 100 and 10 * discount_rate * 100, the rate a whole percent
APDiscountPriority(inv) ==
    IF ~HasDiscount(inv) THEN 0
    ELSE IF inv.earlyPaymentDate < 0 THEN 0
    ELSE IF inv.earlyPaymentDate < 7 THEN 20 * inv.discountRate
    ELSE 10 * inv.discountRate

\* one pass of the loop of _prioritize_invoices; importance * 20 is 2 per tenth
APPrioritizeInvoice(inv, importance_map) ==
    [invoice |-> inv,
     supplier_id |-> inv.entity,
     priority |-> APBasePriority(inv.dueDate) + APDiscountPriority(inv)
                  + 2 * Importance(importance_map, inv.entity),
     days_until_due |-> inv.dueDate]

APPrioritizeInvoices(invoices, importance_map) ==
    SortDescending([i \in 1..Len(invoices) |->
                       APPrioritizeInvoice(invoices[i], importance_map)], "priority")

\* int(30 * (1 - importance)) as binary floating point computes it: 1 - 0.8
\* and 1 - 0.9 fall just below 0.2 and 0.1, so the product truncates to one
\* less than 30 - 3 * tenths
IntThirtyTimesRest(importance) ==
    IF importance \in {8, 9} THEN 30 - 3 * importance - 1 ELSE 30 - 3 * importance

DelayDays(importance) == Min(10, Max(1, IntThirtyTimesRest(importance)))

\* the discount branch with the cash test left out
DiscountDecision_NoCashTest(inv, remaining_cash) ==
    LET amount == inv.amount
        days_early == inv.dueDate - inv.earlyPaymentDate
    IN IF amount * inv.discountRate * (BorrowingRateDen \div 100) > amount * days_early
       THEN [payment_date |-> inv.earlyPaymentDate,
             payment_amount |-> amount - Pct(amount, inv.discountRate),
             payment_type |-> "early_with_discount", deducted |-> TRUE]
       ELSE [payment_date |-> inv.dueDate, payment_amount |-> amount,
             payment_type |-> "on_due_date", deducted |-> TRUE]

\* the branch for an invoice with discount terms: discount_benefit is
\* amount * rate / 100 and opportunity_cost amount * days_early / BorrowingRateDen,
\* compared after multiplying both by BorrowingRateDen
DiscountDecision(inv, remaining_cash) ==
    LET amount == inv.amount
        days_early == inv.dueDate - inv.earlyPaymentDate
    IN IF /\ amount * inv.discountRate * (BorrowingRateDen \div 100) > amount * days_early
          /\ remaining_cash >= amount
       THEN [payment_date |-> inv.earlyPaymentDate,
             payment_amount |-> amount - Pct(amount, inv.discountRate),
             payment_type |-> "early_with_discount", deducted |-> TRUE]
       ELSE [payment_date |-> inv.dueDate, payment_amount |-> amount,
             payment_type |-> "on_due_date", deducted |-> TRUE]

\* the no-discount branch with the important-supplier test at 0.8 and above
NoDiscountDecision_AtLeast(inv, importance, remaining_cash) ==
    LET amount == inv.amount
        due_date == inv.dueDate
    IN IF importance >= 8
       THEN IF due_date <= 5 /\ remaining_cash >= amount
            THEN [payment_date |-> 0, payment_amount |-> amount,
                  payment_type |-> "early_important_supplier", deducted |-> TRUE]
            ELSE [payment_date |-> due_date, payment_amount |-> amount,
                  payment_type |-> "on_due_date", deducted |-> TRUE]
       ELSE IF remaining_cash < APMinCashBuffer + amount
            THEN [payment_date |-> due_date + DelayDays(importance),
                  payment_amount |-> amount,
                  payment_type |-> "delayed_cash_constraint", deducted |-> FALSE]
            ELSE [payment_date |-> due_date, payment_amount |-> amount,
                  payment_type |-> "on_due_date", deducted |-> TRUE]

\* the branch for an invoice without discount terms
NoDiscountDecision(inv, importance, remaining_cash) ==
    LET amount == inv.amount
        due_date == inv.dueDate
        days_until_due == due_date
    IN IF importance > 8
       THEN IF days_until_due <= 5 /\ remaining_cash >= amount
            THEN [payment_date |-> 0, payment_amount |-> amount,
                  payment_type |-> "early_important_supplier", deducted |-> TRUE]
            ELSE [payment_date |-> due_date, payment_amount |-> amount,
                  payment_type |-> "on_due_date", deducted |-> TRUE]
       ELSE IF remaining_cash < APMinCashBuffer + amount
            THEN [payment_date |-> due_date + DelayDays(importance),
                  payment_amount |-> amount,
                  payment_type |-> "delayed_cash_constraint", deducted |-> FALSE]
            ELSE [payment_date |-> due_date, payment_amount |-> amount,
                  payment_type |-> "on_due_date", deducted |-> TRUE]

\* one pass of the loop of optimize_payment_schedule: the payment appended
\* and the cash left
APSchedulePayment(entry, remaining_cash, importance_map) ==
    LET inv == entry.invoice
        amount == inv.amount
        has_discount == HasDiscount(inv)
        discount_amount == IF has_discount THEN Pct(amount, inv.discountRate) ELSE 0
        decision ==
            IF has_discount
            THEN DiscountDecision(inv, remaining_cash)
            ELSE NoDiscountDecision(inv, Importance(importance_map, entry.supplier_id),
                                    remaining_cash)
    IN [payment |-> [invoice_id |-> inv.id,
                     supplier_id |-> entry.supplier_id,
                     amount |-> amount,
                     payment_amount |-> decision.payment_amount,
                     due_date |-> inv.dueDate,
                     payment_date |-> decision.payment_date,
                     payment_type |-> decision.payment_type,
                     priority |-> entry.priority,
                     discount_amount |-> discount_amount],
        remaining_cash |-> IF decision.deducted
                           THEN remaining_cash - decision.payment_amount
                           ELSE remaining_cash]

\* a loop in which every decision sees the cash position the call started with
RECURSIVE APScheduleFrom_FixedCash(_, _, _, _, _)
APScheduleFrom_FixedCash(prioritized, i, schedule, remaining_cash, importance_map) ==
    IF i > Len(prioritized)
    THEN [payment_schedule |-> schedule, remaining_cash |-> remaining_cash]
    ELSE LET s == APSchedulePayment(prioritized[i], remaining_cash, importance_map) IN
         APScheduleFrom_FixedCash(prioritized, i + 1, Append(schedule, s.payment),
                                  remaining_cash, importance_map)

RECURSIVE APScheduleFrom(_, _, _, _, _)
APScheduleFrom(prioritized, i, schedule, remaining_cash, importance_map) ==
    IF i > Len(prioritized)
    THEN [payment_schedule |-> schedule, remaining_cash |-> remaining_cash]
    ELSE LET s == APSchedulePayment(prioritized[i], remaining_cash, importance_map) IN
         APScheduleFrom(prioritized, i + 1, Append(schedule, s.payment),
                        s.remaining_cash, importance_map)

\* the metrics of the returned dict; the two percentages in hundredths of a
\* percent, rounded down
APMetrics(prioritized, schedule, remaining_cash) ==
    LET total_payable ==
            SumSeq([i \in 1..Len(prioritized) |-> prioritized[i].invoice.amount])
        total_discount == SumField(schedule, "discount_amount")
        on_time_payments ==
            Cardinality({i \in 1..Len(schedule) :
                            schedule[i].payment_type # "delayed_cash_constraint"})
    IN [total_payable |-> total_payable,
        total_discount_captured |-> total_discount,
        discount_percentage |-> IF total_payable > 0
                                THEN (total_discount * 10000) \div total_payable
                                ELSE 0,
        on_time_percentage |-> IF Len(schedule) > 0
                               THEN (on_time_payments * 10000) \div Len(schedule)
                               ELSE 0,
        remaining_cash |-> remaining_cash]

APReturn(prioritized, schedule, remaining_cash) ==
    [payment_schedule |-> schedule,
     metrics |-> APMetrics(prioritized, schedule, remaining_cash)]

\* optimize_payment_schedule run from its first line to its return
OptimizePaymentSchedule(invoices, cash_position, importance_map) ==
    LET prioritized == APPrioritizeInvoices(invoices, importance_map)
        run == APScheduleFrom(prioritized, 1, <<>>, cash_position, importance_map)
    IN APReturn(prioritized, run.payment_schedule, run.remaining_cash)

APCallRecord(cash_position, importance_map, prioritized, output) ==
    [status |-> "ok", cash_position |-> cash_position,
     importance |-> importance_map, prioritized |-> prioritized, output |-> output]

APOptimize(cash_position) ==
    /\ ap_run.pc = "idle"
    /\ ap_result' = APCallRecord(cash_position, supplier_importance,
                        APPrioritizeInvoices(ap_invoices, supplier_importance),
                        OptimizePaymentSchedule(ap_invoices, cash_position,
                                                supplier_importance))
    /\ UNCHANGED ap_run

(* optimize_payment_schedule as a thread runs it: one step per loop pass,  *)
(* every step reading supplier_importance as it is at that moment.         *)
(* read_priority and read_decision record, per invoice id, the importance  *)
(* line 249 and line 129 read.                                             *)

RunIdle ==
    [pc |-> "idle", cash_position |-> 0, objective |-> "balanced", invoices |-> <<>>,
     i |-> 1, prioritized |-> <<>>, output |-> <<>>, remaining_cash |-> 0,
     read_priority |-> NoImportance, read_decision |-> NoImportance]

APBegin(cash_position) ==
    /\ ap_run.pc = "idle"
    /\ ar_run.pc = "idle"
    /\ ap_run' = [RunIdle EXCEPT !.pc = "prioritize", !.cash_position = cash_position,
                                 !.invoices = ap_invoices,
                                 !.remaining_cash = cash_position]
    /\ UNCHANGED ap_result

APPrioritizeStep ==
    /\ ap_run.pc = "prioritize"
    /\ ap_run.i <= Len(ap_run.invoices)
    /\ LET inv == ap_run.invoices[ap_run.i] IN
       ap_run' = [ap_run EXCEPT
                    !.prioritized = Append(@, APPrioritizeInvoice(inv, supplier_importance)),
                    !.read_priority = (inv.id :> Importance(supplier_importance, inv.entity)) @@ @,
                    !.i = @ + 1]
    /\ UNCHANGED ap_result

APSortStep ==
    /\ ap_run.pc = "prioritize"
    /\ ap_run.i > Len(ap_run.invoices)
    /\ ap_run' = [ap_run EXCEPT !.pc = "schedule", !.i = 1,
                                !.prioritized = SortDescending(@, "priority")]
    /\ UNCHANGED ap_result

APScheduleStep ==
    /\ ap_run.pc = "schedule"
    /\ ap_run.i <= Len(ap_run.prioritized)
    /\ LET entry == ap_run.prioritized[ap_run.i]
           s == APSchedulePayment(entry, ap_run.remaining_cash, supplier_importance)
       IN ap_run' = [ap_run EXCEPT
                       !.output = Append(@, s.payment),
                       !.remaining_cash = s.remaining_cash,
                       !.read_decision =
                           IF HasDiscount(entry.invoice) THEN @
                           ELSE (entry.invoice.id :>
                                   Importance(supplier_importance, entry.supplier_id)) @@ @,
                       !.i = @ + 1]
    /\ UNCHANGED ap_result

APReturnStep ==
    /\ ap_run.pc = "schedule"
    /\ ap_run.i > Len(ap_run.prioritized)
    /\ ap_result' = APCallRecord(ap_run.cash_position, supplier_importance,
                        ap_run.prioritized,
                        APReturn(ap_run.prioritized, ap_run.output, ap_run.remaining_cash))
    /\ ap_run' = RunIdle

----------------------------------------------------------------------------
(* AccountsReceivableOptimizer *)

\* cost in dollars, effectiveness in tenths, relationship_impact in thousandths
CollectionActions ==
    [reminder_email |-> [cost |-> 1, effectiveness |-> 3, relationship_impact |-> -100],
     phone_call |-> [cost |-> 10, effectiveness |-> 5, relationship_impact |-> -300],
     personal_visit |-> [cost |-> 50, effectiveness |-> 7, relationship_impact |-> -500],
     early_payment_discount |-> [cost |-> 0, effectiveness |-> 6, relationship_impact |-> 200],
     late_payment_penalty |-> [cost |-> 0, effectiveness |-> 4, relationship_impact |-> -600],
     collection_agency |-> [cost |-> 0, effectiveness |-> 8, relationship_impact |-> -900]]

Objectives == {"cash_flow", "relationship", "balanced", "other"}

\* the triples of cash_flow and relationship exchanged
ARWeights_Exchanged(objective) ==
    IF objective = "relationship"
    THEN [cash_acceleration |-> 7, relationship |-> 1, cost |-> 2]
    ELSE IF objective = "cash_flow"
         THEN [cash_acceleration |-> 3, relationship |-> 6, cost |-> 1]
         ELSE [cash_acceleration |-> 5, relationship |-> 3, cost |-> 2]

\* the weights chosen for the objective, in tenths
ARWeights(objective) ==
    IF objective = "cash_flow"
    THEN [cash_acceleration |-> 7, relationship |-> 1, cost |-> 2]
    ELSE IF objective = "relationship"
         THEN [cash_acceleration |-> 3, relationship |-> 6, cost |-> 1]
         ELSE [cash_acceleration |-> 5, relationship |-> 3, cost |-> 2]

ARBasePriority(dueDate) ==
    LET days_overdue == 0 - dueDate IN
    IF days_overdue > 90 THEN 100
    ELSE IF days_overdue > 60 THEN 90
    ELSE IF days_overdue > 30 THEN 80
    ELSE IF days_overdue > 0 THEN 70
    ELSE IF dueDate < 7 THEN 60
    ELSE IF dueDate < 14 THEN 50
    ELSE 40

\* the importance factor taken as importance * 20
ARPrioritizeInvoice_ImportanceDirect(inv, importance_map) ==
    [invoice |-> inv,
     customer_id |-> inv.entity,
     priority |-> ARBasePriority(inv.dueDate) + Min(20, inv.amount \div 5000)
                  + 2 * Importance(importance_map, inv.entity),
     days_overdue |-> 0 - inv.dueDate]

\* one pass of the loop of _prioritize_invoices; (1 - importance) * 20 is
\* 20 less 2 per tenth
ARPrioritizeInvoice(inv, importance_map) ==
    [invoice |-> inv,
     customer_id |-> inv.entity,
     priority |-> ARBasePriority(inv.dueDate) + Min(20, inv.amount \div 5000)
                  + (20 - 2 * Importance(importance_map, inv.entity)),
     days_overdue |-> 0 - inv.dueDate]

ARPrioritizeInvoices(invoices, importance_map) ==
    SortDescending([i \in 1..Len(invoices) |->
                       ARPrioritizeInvoice(invoices[i], importance_map)], "priority")

\* an action of _determine_optimal_actions with its score, the score in
\* tenths of the code's: the weights are tenths and relationship_impact * 1000
\* is the impact in thousandths
ScoredAction(type, timing, cost, expected_benefit, relationship_impact, weights) ==
    [type |-> type, timing |-> timing, cost |-> cost,
     expected_benefit |-> expected_benefit,
     relationship_impact |-> relationship_impact,
     score |-> weights.cash_acceleration * expected_benefit
               + weights.relationship * relationship_impact
               - weights.cost * cost]

\* the brackets tested least overdue first
OverdueBracket_LeastFirst(amount, due_date, days_overdue, priority) ==
    IF days_overdue > 0 THEN "over_0"
    ELSE IF days_overdue > 30 THEN "over_30"
    ELSE IF days_overdue > 60 THEN "over_60"
    ELSE IF days_overdue > 90 THEN "over_90"
    ELSE IF due_date < 7 THEN "due_soon"
    ELSE IF priority > 70 /\ amount > 10000 THEN "large_not_due"
    ELSE "none"

\* the branch of the if / elif chain of _determine_optimal_actions taken
OverdueBracket(amount, due_date, days_overdue, priority) ==
    IF days_overdue > 90 THEN "over_90"
    ELSE IF days_overdue > 60 THEN "over_60"
    ELSE IF days_overdue > 30 THEN "over_30"
    ELSE IF days_overdue > 0 THEN "over_0"
    ELSE IF due_date < 7 THEN "due_soon"
    ELSE IF priority > 70 /\ amount > 10000 THEN "large_not_due"
    ELSE "none"

DetermineOptimalActions(amount, due_date, days_overdue, customer_id, priority, weights, importance_map) ==
    LET customer_importance_ == Importance(importance_map, customer_id)
        Times(impact) == (impact * customer_importance_) \div 10
        Eff(type) == (amount * CollectionActions[type].effectiveness) \div 10
        reminder == ScoredAction("reminder_email", "immediately",
                        CollectionActions.reminder_email.cost, Eff("reminder_email"),
                        Times(CollectionActions.reminder_email.relationship_impact), weights)
        phone(timing) == ScoredAction("phone_call", timing,
                        CollectionActions.phone_call.cost, Eff("phone_call"),
                        Times(CollectionActions.phone_call.relationship_impact), weights)
        bracket == OverdueBracket(amount, due_date, days_overdue, priority)
        actions ==
            IF bracket = "over_90"
            THEN IF customer_importance_ < 4
                 THEN <<ScoredAction("collection_agency", "immediately", amount \div 4,
                            (amount * 8 * CollectionActions.collection_agency.effectiveness)
                                \div 100,
                            CollectionActions.collection_agency.relationship_impact,
                            weights)>>
                 ELSE <<ScoredAction("personal_visit", "immediately",
                            CollectionActions.personal_visit.cost, Eff("personal_visit"),
                            Times(CollectionActions.personal_visit.relationship_impact),
                            weights)>>
            ELSE IF bracket = "over_60"
            THEN <<phone("immediately")>> \o
                 (IF customer_importance_ < 7
                  THEN <<ScoredAction("late_payment_penalty", "immediately", 0,
                             (amount * 2 * 30) \div 100,
                             Times(CollectionActions.late_payment_penalty.relationship_impact),
                             weights)>>
                  ELSE <<>>)
            ELSE IF bracket = "over_30"
            THEN <<reminder, phone("3_days_after_reminder")>>
            ELSE IF bracket = "over_0"
            THEN <<reminder>>
            ELSE IF bracket = "due_soon"
            THEN <<ScoredAction("reminder_email", "immediately",
                       CollectionActions.reminder_email.cost, (amount * 2) \div 10,
                       -50, weights)>>
            ELSE IF bracket = "large_not_due"
            THEN <<ScoredAction("early_payment_discount", "offer_immediately",
                       amount \div 100,
                       (amount * 99 * CollectionActions.early_payment_discount.effectiveness)
                           \div 1000,
                       CollectionActions.early_payment_discount.relationship_impact,
                       weights)>>
            ELSE <<>>
    IN SortDescending(actions, "score")

DaysReduction(type) ==
    CASE type = "reminder_email" -> 2
      [] type = "phone_call" -> 5
      [] type = "personal_visit" -> 10
      [] type = "early_payment_discount" -> 15
      [] type = "late_payment_penalty" -> 3
      [] type = "collection_agency" -> 20
      [] OTHER -> 0

\* an overdue invoice dated from its due date
CalculateExpectedCollectionDate_FromDueDate(due_date, actions) ==
    IF Len(actions) = 0 THEN Max(0, due_date)
    ELSE LET days_reduction ==
                 SumSeq([i \in 1..Len(actions) |-> DaysReduction(actions[i].type)])
         IN IF due_date < 0
            THEN due_date + Max(1, 30 - days_reduction)
            ELSE Max(0, due_date - days_reduction)

CalculateExpectedCollectionDate(due_date, actions) ==
    IF Len(actions) = 0 THEN Max(0, due_date)
    ELSE LET days_reduction ==
                 SumSeq([i \in 1..Len(actions) |-> DaysReduction(actions[i].type)])
         IN IF due_date < 0
            THEN Max(1, 30 - days_reduction)
            ELSE Max(0, due_date - days_reduction)

\* the benefit computed whichever date comes first
CalculateFinancialImpact_Unguarded(amount, due_date, expected_collection_date) ==
    (amount * (due_date - expected_collection_date)) \div BorrowingRateDen

CalculateFinancialImpact(amount, due_date, expected_collection_date) ==
    IF expected_collection_date >= due_date THEN 0
    ELSE (amount * (due_date - expected_collection_date)) \div BorrowingRateDen

\* one pass of the loop of optimize_collection_strategy
ARStrategyFor(entry, weights, importance_map) ==
    LET inv == entry.invoice
        optimal_actions ==
            DetermineOptimalActions(inv.amount, inv.dueDate, entry.days_overdue,
                                    entry.customer_id, entry.priority, weights,
                                    importance_map)
        expected_collection_date ==
            CalculateExpectedCollectionDate(inv.dueDate, optimal_actions)
    IN [invoice_id |-> inv.id,
        customer_id |-> entry.customer_id,
        amount |-> inv.amount,
        due_date |-> inv.dueDate,
        days_overdue |-> entry.days_overdue,
        priority |-> entry.priority,
        actions |-> optimal_actions,
        expected_collection_date |-> expected_collection_date,
        financial_impact |->
            CalculateFinancialImpact(inv.amount, inv.dueDate, expected_collection_date)]

\* the returned dict; roi in hundredths, rounded down
ARReturn(prioritized, collection_strategy) ==
    LET total_actions_cost ==
            SumSeq([i \in 1..Len(collection_strategy) |->
                       SumField(collection_strategy[i].actions, "cost")])
        total_financial_impact == SumField(collection_strategy, "financial_impact")
    IN [collection_strategy |-> collection_strategy,
        metrics |->
            [total_receivable |->
                 SumSeq([i \in 1..Len(prioritized) |-> prioritized[i].invoice.amount]),
             total_actions_cost |-> total_actions_cost,
             total_financial_impact |-> total_financial_impact,
             roi |-> IF total_actions_cost > 0
                     THEN (total_financial_impact * 100) \div total_actions_cost
                     ELSE 0]]

\* optimize_collection_strategy run from its first line to its return
OptimizeCollectionStrategy(invoices, objective, importance_map) ==
    LET weights == ARWeights(objective)
        prioritized == ARPrioritizeInvoices(invoices, importance_map)
    IN ARReturn(prioritized,
                [i \in 1..Len(prioritized) |->
                    ARStrategyFor(prioritized[i], weights, importance_map)])

ARCallRecord(cash_position, objective, importance_map, prioritized, output) ==
    [status |-> "ok", cash_position |-> cash_position, objective |-> objective,
     importance |-> importance_map, prioritized |-> prioritized, output |-> output]

AROptimize(cash_position, objective) ==
    /\ ar_run.pc = "idle"
    /\ ar_result' = ARCallRecord(cash_position, objective, customer_importance,
                        ARPrioritizeInvoices(ar_invoices, customer_importance),
                        OptimizeCollectionStrategy(ar_invoices, objective,
                                                   customer_importance))
    /\ UNCHANGED ar_run

(* optimize_collection_strategy as a thread runs it; read_priority and     *)
(* read_decision record the importance line 246 and line 279 read.         *)

ARBegin(cash_position, objective) ==
    /\ ar_run.pc = "idle"
    /\ ap_run.pc = "idle"
    /\ ar_run' = [RunIdle EXCEPT !.pc = "prioritize", !.cash_position = cash_position,
                                 !.objective = objective, !.invoices = ar_invoices]
    /\ UNCHANGED ar_result

ARPrioritizeStep ==
    /\ ar_run.pc = "prioritize"
    /\ ar_run.i <= Len(ar_run.invoices)
    /\ LET inv == ar_run.invoices[ar_run.i] IN
       ar_run' = [ar_run EXCEPT
                    !.prioritized = Append(@, ARPrioritizeInvoice(inv, customer_importance)),
                    !.read_priority = (inv.id :> Importance(customer_importance, inv.entity)) @@ @,
                    !.i = @ + 1]
    /\ UNCHANGED ar_result

ARSortStep ==
    /\ ar_run.pc = "prioritize"
    /\ ar_run.i > Len(ar_run.invoices)
    /\ ar_run' = [ar_run EXCEPT !.pc = "strategy", !.i = 1,
                                !.prioritized = SortDescending(@, "priority")]
    /\ UNCHANGED ar_result

ARStrategyStep ==
    /\ ar_run.pc = "strategy"
    /\ ar_run.i <= Len(ar_run.prioritized)
    /\ LET entry == ar_run.prioritized[ar_run.i] IN
       ar_run' = [ar_run EXCEPT
                    !.output = Append(@, ARStrategyFor(entry, ARWeights(ar_run.objective),
                                                       customer_importance)),
                    !.read_decision =
                        (entry.invoice.id :>
                            Importance(customer_importance, entry.customer_id)) @@ @,
                    !.i = @ + 1]
    /\ UNCHANGED ar_result

ARReturnStep ==
    /\ ar_run.pc = "strategy"
    /\ ar_run.i > Len(ar_run.prioritized)
    /\ ar_result' = ARCallRecord(ar_run.cash_position, ar_run.objective,
                        customer_importance, ar_run.prioritized, ARReturn(ar_run.prioritized, ar_run.output))
    /\ ar_run' = RunIdle

----------------------------------------------------------------------------
(* WorkingCapitalOptimizer.optimize and its recommendation pass *)

\* sorted(invoices, key=dueDate): ascending, rows of equal dueDate in input order
RECURSIVE SortByDueDate(_)
SortByDueDate(invoices) ==
    IF Len(invoices) <= 1 THEN invoices
    ELSE LET last == invoices[Len(invoices)]
             front == SortByDueDate(SubSeq(invoices, 1, Len(invoices) - 1))
             k == Cardinality({i \in 1..Len(front) : front[i].dueDate <= last.dueDate})
         IN SubSeq(front, 1, k) \o <<last>> \o SubSeq(front, k + 1, Len(front))

\* forecast.index[forecast['date'] == due_date].tolist(), positions from 1
DueIndex(forecast, due_date) == {i \in 1..Len(forecast) : forecast[i].date = due_date}

FirstIndex(indices) == CHOOSE i \in indices : \A j \in indices : i <= j

\* the test for 'delay' without the amount of the invoice
APRecommendation_BufferOnly(inv, cash_balance, forecast, buffer) ==
    LET due_index == DueIndex(forecast, inv.dueDate)
        rec(action, reason, date) ==
            [invoice_id |-> inv.id, amount |-> inv.amount, due_date |-> inv.dueDate,
             action |-> action, reason |-> reason, recommended_payment_date |-> date]
    IN IF due_index = {} THEN <<>>
       ELSE IF /\ FirstIndex(due_index) <= Len(cash_balance)
               /\ cash_balance[FirstIndex(due_index)] < buffer
            THEN <<rec("delay", "Cash flow constraint", inv.dueDate + 7)>>
            ELSE <<rec("pay_on_time", "Maintain supplier relationship", inv.dueDate)>>

\* one pass of the loop of _generate_ap_recommendations: the recommendation
\* appended, if any.  discount_amount > amount * borrowing_rate * 30 is
\* compared after multiplying both sides by BorrowingRateDen.
APRecommendation(inv, cash_balance, forecast, buffer) ==
    LET due_index == DueIndex(forecast, inv.dueDate)
        rec(action, reason, date) ==
            [invoice_id |-> inv.id, amount |-> inv.amount, due_date |-> inv.dueDate,
             action |-> action, reason |-> reason, recommended_payment_date |-> date]
    IN IF due_index = {} THEN <<>>
       ELSE IF /\ FirstIndex(due_index) <= Len(cash_balance)
               /\ cash_balance[FirstIndex(due_index)] < buffer + inv.amount
            THEN <<rec("delay", "Cash flow constraint", inv.dueDate + 7)>>
            ELSE IF HasDiscount(inv)
                 THEN IF inv.amount * inv.discountRate * (BorrowingRateDen \div 100)
                            > inv.amount * 30
                      THEN <<[invoice_id |-> inv.id, amount |-> inv.amount,
                              due_date |-> inv.dueDate, action |-> "pay_early",
                              reason |-> "Discount benefit exceeds financing cost",
                              recommended_payment_date |-> inv.earlyPaymentDate,
                              discount_amount |-> Pct(inv.amount, inv.discountRate)]>>
                      ELSE <<rec("pay_on_time", "Optimal cash management", inv.dueDate)>>
                 ELSE <<rec("pay_on_time", "Maintain supplier relationship", inv.dueDate)>>

RECURSIVE APRecommendationsFrom(_, _, _, _, _)
APRecommendationsFrom(sorted_invoices, i, cash_balance, forecast, buffer) ==
    IF i > Len(sorted_invoices) THEN <<>>
    ELSE APRecommendation(sorted_invoices[i], cash_balance, forecast, buffer)
         \o APRecommendationsFrom(sorted_invoices, i + 1, cash_balance, forecast, buffer)

GenerateAPRecommendations(invoices, cash_balance, forecast, buffer) ==
    APRecommendationsFrom(SortByDueDate(invoices), 1, cash_balance, forecast, buffer)

AccelerateActions ==
    <<[type |-> "reminder", timing |-> "immediately", priority |-> "high"],
      [type |-> "call", timing |-> "3_days_before_due", priority |-> "high"]>>

StandardActions(amount) ==
    <<[type |-> "reminder", timing |-> "7_days_before_due", priority |-> "normal"],
      [type |-> "reminder", timing |-> "1_day_after_due", priority |-> "normal"]>>
    \o (IF amount > 50000
        THEN <<[type |-> "call", timing |-> "3_days_after_due", priority |-> "high"]>>
        ELSE <<>>)

\* the test for 'accelerate' with the amount of the invoice added to the buffer
ARRecommendation_AmountAdded(inv, cash_balance, forecast, buffer) ==
    LET due_index == DueIndex(forecast, inv.dueDate)
        rec(action, reason, actions) ==
            [invoice_id |-> inv.id, amount |-> inv.amount, due_date |-> inv.dueDate,
             action |-> action, reason |-> reason, recommended_actions |-> actions]
    IN IF due_index = {} THEN <<>>
       ELSE IF /\ FirstIndex(due_index) <= Len(cash_balance)
               /\ cash_balance[FirstIndex(due_index)] < buffer + inv.amount
            THEN <<rec("accelerate", "Cash flow constraint", AccelerateActions)>>
            ELSE <<rec("standard", "Regular collection process",
                       StandardActions(inv.amount))>>

\* one pass of the loop of _generate_ar_recommendations
ARRecommendation(inv, cash_balance, forecast, buffer) ==
    LET due_index == DueIndex(forecast, inv.dueDate)
        rec(action, reason, actions) ==
            [invoice_id |-> inv.id, amount |-> inv.amount, due_date |-> inv.dueDate,
             action |-> action, reason |-> reason, recommended_actions |-> actions]
    IN IF due_index = {} THEN <<>>
       ELSE IF /\ FirstIndex(due_index) <= Len(cash_balance)
               /\ cash_balance[FirstIndex(due_index)] < buffer
            THEN <<rec("accelerate", "Cash flow constraint", AccelerateActions)>>
            ELSE <<rec("standard", "Regular collection process",
                       StandardActions(inv.amount))>>

RECURSIVE ARRecommendationsFrom(_, _, _, _, _)
ARRecommendationsFrom(sorted_invoices, i, cash_balance, forecast, buffer) ==
    IF i > Len(sorted_invoices) THEN <<>>
    ELSE ARRecommendation(sorted_invoices[i], cash_balance, forecast, buffer)
         \o ARRecommendationsFrom(sorted_invoices, i + 1, cash_balance, forecast, buffer)

GenerateARRecommendations(invoices, cash_balance, forecast, buffer) ==
    ARRecommendationsFrom(SortByDueDate(invoices), 1, cash_balance, forecast, buffer)

\* the returned dict, with the locals of the call kept for observation
WCReturn(scenario, adj, buffer_used, forecast, cash_balance, borrowing, ap_recommendations, ar_recommendations) ==
    LET total_borrowing == SumSeq(borrowing) IN
    [status |-> "ok",
     scenario |-> scenario,
     ar_adjustment |-> adj.ar,
     ap_adjustment |-> adj.ap,
     buffer_used |-> buffer_used,
     forecast |-> forecast,
     cash_balance |-> cash_balance,
     borrowing |-> borrowing,
     average_cash_balance |-> SumSeq(cash_balance) \div Len(cash_balance),
     minimum_cash_balance |-> MinSeq(cash_balance),
     total_borrowing |-> total_borrowing,
     borrowing_cost |-> (total_borrowing * Horizon) \div 10000,
     ap_recommendations |-> ap_recommendations,
     ar_recommendations |-> ar_recommendations]

\* the whole call: what it returns and the buffer it leaves behind
Optimize(scenario, data, payables, receivables, buffer) ==
    LET fc == GetCashFlowForecast(data) IN
    IF fc.raised
    THEN [buffer |-> buffer,
          result |-> [status |-> "error", scenario |-> scenario]]
    ELSE LET adj == ScenarioAdjust(scenario)
             buf == ScaleBuffer(buffer, scenario)
             sim == Simulate(fc.rows, 1, <<InitialCash>>, <<0>>, adj.ar, adj.ap, buf)
         IN [buffer |-> buf,
             result |-> WCReturn(scenario, adj, buf, fc.rows, sim.cash_balance,
                            sim.borrowing,
                            GenerateAPRecommendations(payables, sim.cash_balance,
                                                      fc.rows, buf),
                            GenerateARRecommendations(receivables, sim.cash_balance,
                                                      fc.rows, buf))]

WCOptimize(scenario) ==
    /\ wc_calls < MaxCalls
    /\ \A t \in DOMAIN wc_run : wc_run[t].pc = "idle"
    /\ LET out == Optimize(scenario, forecast_data, ap_invoices, ar_invoices,
                           min_cash_buffer) IN
         /\ min_cash_buffer' = out.buffer
         /\ wc_result' = out.result
         /\ wc_prev' = wc_result
    /\ wc_calls' = wc_calls + 1
    /\ nConservative' = nConservative + (IF scenario = "conservative" THEN 1 ELSE 0)
    /\ nAggressive' = nAggressive + (IF scenario = "aggressive" THEN 1 ELSE 0)
    /\ UNCHANGED <<dbVars, owVars, impVars, apVars, arVars, wc_run>>

(* optimize as a thread runs it.  The augmented assignment of the scenario *)
(* branch is a load and a store; the loop and the two recommendation       *)
(* passes read self.min_cash_buffer as they go.  used records the values   *)
(* the call compared a balance with.                                       *)

WCThreads == {1, 2}

WCRunIdle ==
    [pc |-> "idle", scenario |-> "base", forecast |-> <<>>, payables |-> <<>>,
     receivables |-> <<>>, loaded |-> 0, own_buffer |-> 0, i |-> 1,
     cash_balance |-> <<>>, borrowing |-> <<>>, used |-> {},
     ap_recommendations |-> <<>>, ar_recommendations |-> <<>>,
     result |-> [status |-> "none"]]

WCBegin(t, scenario) ==
    /\ wc_run[t].pc = "idle"
    /\ wc_run[t].result.status = "none"
    /\ LET fc == GetCashFlowForecast(forecast_data) IN
       wc_run' = [wc_run EXCEPT ![t] =
          IF fc.raised
          THEN [@ EXCEPT !.pc = "idle", !.scenario = scenario,
                         !.result = [status |-> "error", scenario |-> scenario]]
          ELSE [@ EXCEPT !.pc = IF scenario = "base" THEN "simulate" ELSE "load",
                         !.scenario = scenario, !.forecast = fc.rows,
                         !.own_buffer = min_cash_buffer,
                         !.payables = ap_invoices, !.receivables = ar_invoices,
                         !.cash_balance = <<InitialCash>>, !.borrowing = <<0>>]]
    /\ UNCHANGED <<min_cash_buffer, wc_result, wc_prev, wc_calls, nConservative, nAggressive>>

WCLoadBuffer(t) ==
    /\ wc_run[t].pc = "load"
    /\ wc_run' = [wc_run EXCEPT ![t].pc = "store", ![t].loaded = min_cash_buffer]
    /\ UNCHANGED <<min_cash_buffer, wc_result, wc_prev, wc_calls, nConservative, nAggressive>>

WCStoreBuffer(t) ==
    /\ wc_run[t].pc = "store"
    /\ min_cash_buffer' = ScaleBuffer(wc_run[t].loaded, wc_run[t].scenario)
    /\ wc_run' = [wc_run EXCEPT ![t].pc = "simulate", ![t].own_buffer = min_cash_buffer']
    /\ UNCHANGED <<wc_result, wc_prev, wc_calls, nConservative, nAggressive>>

WCSimulateStep(t) ==
    /\ wc_run[t].pc = "simulate"
    /\ wc_run[t].i \in SimulatedRows(wc_run[t].forecast)
    /\ LET run == wc_run[t]
           adj == ScenarioAdjust(run.scenario)
           s == SimStep(run.cash_balance[Len(run.cash_balance)], run.forecast[run.i],
                        adj.ar, adj.ap, min_cash_buffer)
       IN wc_run' = [wc_run EXCEPT ![t].cash_balance = Append(@, s.balance),
                                   ![t].borrowing = Append(@, s.borrowed),
                                   ![t].used = @ \cup {min_cash_buffer},
                                   ![t].i = @ + 1]
    /\ UNCHANGED <<min_cash_buffer, wc_result, wc_prev, wc_calls, nConservative, nAggressive>>

WCRecommendAPStep(t) ==
    /\ wc_run[t].pc = "simulate"
    /\ wc_run[t].i \notin SimulatedRows(wc_run[t].forecast)
    /\ LET run == wc_run[t]
           recommendations == GenerateAPRecommendations(run.payables, run.cash_balance,
                                                        run.forecast, min_cash_buffer)
       IN wc_run' = [wc_run EXCEPT ![t].pc = "recommend_ar",
                                   ![t].ap_recommendations = recommendations,
                                   ![t].used = IF recommendations = <<>> THEN @
                                               ELSE @ \cup {min_cash_buffer}]
    /\ UNCHANGED <<min_cash_buffer, wc_result, wc_prev, wc_calls, nConservative, nAggressive>>

WCRecommendARStep(t) ==
    /\ wc_run[t].pc = "recommend_ar"
    /\ LET run == wc_run[t]
           recommendations == GenerateARRecommendations(run.receivables, run.cash_balance,
                                                        run.forecast, min_cash_buffer)
       IN wc_run' = [wc_run EXCEPT ![t].pc = "return",
                                   ![t].ar_recommendations = recommendations,
                                   ![t].used = IF recommendations = <<>> THEN @
                                               ELSE @ \cup {min_cash_buffer}]
    /\ UNCHANGED <<min_cash_buffer, wc_result, wc_prev, wc_calls, nConservative, nAggressive>>

WCReturnStep(t) ==
    /\ wc_run[t].pc = "return"
    /\ LET run == wc_run[t] IN
       wc_run' = [wc_run EXCEPT ![t].pc = "idle",
                    ![t].result = WCReturn(run.scenario, ScenarioAdjust(run.scenario),
                                      run.own_buffer, run.forecast, run.cash_balance,
                                      run.borrowing, run.ap_recommendations,
                                      run.ar_recommendations)]
    /\ UNCHANGED <<min_cash_buffer, wc_result, wc_prev, wc_calls, nConservative, nAggressive>>

----------------------------------------------------------------------------
(* The storage collaborator's invoices: rows ordered by dueDate *)

CashInputs == {0, 150000, 250000, 400000}
\* optimize_collection_strategy passes its cash position on and never reads it
ARCashInputs == {150000}

\* the shapes an AP row takes: amount, dueDate, discount terms or none, supplier
NoTerms == <<-1, 0>>
APShapes ==
    {<<150000, 3, NoTerms, "S1">>, <<150000, 3, <<2, 2>>, "S1">>,
     <<50000, -1, NoTerms, NoEntity>>, <<150000, 10, NoTerms, "S1">>,
     <<10000, 12, <<2, 2>>, "S1">>, <<150000, 20, NoTerms, "S1">>,
     <<50000, 20, <<8, 1>>, "S1">>, <<10000, 90, <<-10, 1>>, "S2">>,
     <<150000, 3, <<-2, 2>>, "S1">>}

APRowOf(shape, n) ==
    LET row == InvoiceRow(<<"AP", n>>, shape[1], shape[2], shape[4]) IN
    IF shape[3] = NoTerms THEN row ELSE WithDiscount(row, shape[3][1], shape[3][2])

\* the shapes an AR row takes: amount, dueDate, customer
ARShapes ==
    {<<20000, -95, "K1">>, <<100000, -90, "K1">>, <<20000, -31, "K2">>,
     <<10000, -1, NoEntity>>, <<20000, 0, "K1">>, <<100000, 3, "K1">>,
     <<100000, 20, "K1">>, <<20000, 20, NoEntity>>, <<150000, 10, "K1">>,
     <<20000, 0, "K2">>}

ARRowOf(shape, n) == InvoiceRow(<<"AR", n>>, shape[1], shape[2], shape[3])

\* the lists of at most MaxInvoices shapes in ascending dueDate (ORDER BY i.dueDate)
OrderedLists(shapes) ==
    UNION {{s \in [1..n -> shapes] : \A i \in 1..(n - 1) : s[i][2] <= s[i + 1][2]} :
              n \in 0..MaxInvoices}

APInvoiceInputs ==
    {[i \in 1..Len(s) |-> APRowOf(s[i], i)] : s \in OrderedLists(APShapes)}

ARInvoiceInputs ==
    {[i \in 1..Len(s) |-> ARRowOf(s[i], i)] : s \in OrderedLists(ARShapes)}

\* scores set_supplier_importance is called with next to the payable optimizer
APScores == {2, 8, 9, 11}
\* scores set_customer_importance is called with next to the receivable optimizer
ARScores == {2, 4, 7, 11}

----------------------------------------------------------------------------
(* The storage collaborator's forecast: rows ordered by date, one per date *)

Inflows == {0, 200000}
Outflows == {0, 350000}
ForecastDates == -1..Horizon

NoRow == <<-1, -1>>
\* what the collaborator holds for one date: no row, or a row with some flow
RowChoices == {NoRow} \cup ({<<i, o>> : i \in Inflows, o \in Outflows} \ {<<0, 0>>})
ForecastChoices == [ForecastDates -> RowChoices]

RECURSIVE RowsOf(_, _)
RowsOf(choice, d) ==
    IF d > Horizon THEN <<>>
    ELSE IF choice[d] = NoRow THEN RowsOf(choice, d + 1)
    ELSE <<[date |-> d, inflow |-> choice[d][1], outflow |-> choice[d][2]]>>
         \o RowsOf(choice, d + 1)

ForecastInputs ==
    {RowsOf(c, -1) : c \in {c \in ForecastChoices :
        \A d \in {-1, Horizon} : c[d] \in {NoRow, <<200000, 350000>>}}}

----------------------------------------------------------------------------
(* Construction *)

InitWeights ==
    [liquidity |-> 4 * (WScale \div 10), financing_cost |-> 3 * (WScale \div 10),
     transaction_cost |-> 1 * (WScale \div 10), relationship |-> 2 * (WScale \div 10)]

InitPlanner ==
    /\ min_cash_buffer = DefaultMinCashBuffer
    /\ objective_weights = InitWeights
    /\ wc_result = [status |-> "none"]
    /\ wc_prev = [status |-> "none"]
    /\ wc_calls = 0
    /\ nConservative = 0
    /\ nAggressive = 0
    /\ wc_run = [t \in WCThreads |-> WCRunIdle]
    /\ ow_last = [called |-> FALSE, input |-> [k \in RequiredKeys |-> 0], raised |-> "none"]

InitPayable ==
    /\ supplier_importance = NoImportance
    /\ ap_result = [status |-> "none"]
    /\ ap_run = RunIdle

InitReceivable ==
    /\ customer_importance = NoImportance
    /\ ar_result = [status |-> "none"]
    /\ ar_run = RunIdle

InitOptimizers ==
    /\ InitPlanner
    /\ InitPayable
    /\ InitReceivable
    /\ set_last = [called |-> FALSE, who |-> "supplier", id |-> "S1", score |-> 0,
                   raised |-> FALSE]

InitWC ==
    /\ forecast_data \in ForecastInputs
    /\ ap_invoices = <<>>
    /\ ar_invoices = <<>>
    /\ InitOptimizers

NextWC == \E scenario \in Scenarios : WCOptimize(scenario)

SpecWC == InitWC /\ [][NextWC]_vars

InitWeightsSpec ==
    /\ forecast_data = <<>>
    /\ ap_invoices = <<>>
    /\ ar_invoices = <<>>
    /\ InitOptimizers

NextWeights == \E weights \in WeightInputs : SetObjectiveWeights(weights)

SpecWeights == InitWeightsSpec /\ [][NextWeights]_vars

InitSetters ==
    /\ forecast_data = <<>>
    /\ ap_invoices = <<>>
    /\ ar_invoices = <<>>
    /\ InitOptimizers

NextSetters ==
    \/ \E id \in Suppliers, score \in ScoreInputs :
          SetSupplierImportance(id, score) /\ UNCHANGED <<dbVars, wcVars, owVars, apVars, arVars>>
    \/ \E id \in Customers, score \in ScoreInputs :
          SetCustomerImportance(id, score) /\ UNCHANGED <<dbVars, wcVars, owVars, apVars, arVars>>

SpecSetters == InitSetters /\ [][NextSetters]_vars

InitAP ==
    /\ forecast_data = <<>>
    /\ ap_invoices \in APInvoiceInputs
    /\ ar_invoices = <<>>
    /\ InitOptimizers

NextAP ==
    \/ \E score \in APScores :
          SetSupplierImportance("S1", score) /\ UNCHANGED <<dbVars, wcVars, owVars, apVars, arVars>>
    \/ \E cash_position \in CashInputs :
          APOptimize(cash_position) /\ UNCHANGED <<dbVars, wcVars, owVars, impVars, arVars>>

SpecAP == InitAP /\ [][NextAP]_vars

InitAR ==
    /\ forecast_data = <<>>
    /\ ap_invoices = <<>>
    /\ ar_invoices \in ARInvoiceInputs
    /\ InitOptimizers

NextAR ==
    \/ \E score \in ARScores :
          SetCustomerImportance("K1", score) /\ UNCHANGED <<dbVars, wcVars, owVars, apVars, arVars>>
    \/ \E cash_position \in ARCashInputs, objective \in Objectives :
          AROptimize(cash_position, objective)
              /\ UNCHANGED <<dbVars, wcVars, owVars, impVars, apVars>>

SpecAR == InitAR /\ [][NextAR]_vars

(* The optimizers called from two threads: one runs the importance setters, *)
(* the other runs optimize calls, one at a time, step by step.              *)

ConcAPShapes == {<<150000, 3, NoTerms, "S1">>, <<150000, 3, <<2, 2>>, "S1">>}
ConcARShapes == {<<100000, -61, "K1">>, <<100000, 20, "K1">>}
ConcAPInputs ==
    {[i \in 1..Len(s) |-> APRowOf(s[i], i)] : s \in OrderedLists(ConcAPShapes)}
ConcARInputs ==
    {[i \in 1..Len(s) |-> ARRowOf(s[i], i)] : s \in OrderedLists(ConcARShapes)}
ConcCash == {150000}
ConcObjectives == {"balanced"}
ConcScores == {2, 9}

InitConc ==
    /\ forecast_data = <<>>
    /\ \/ ap_invoices \in ConcAPInputs /\ ar_invoices = <<>>
       \/ ap_invoices = <<>> /\ ar_invoices \in ConcARInputs
    /\ InitOptimizers

APThread ==
    \/ \E cash_position \in ConcCash : APBegin(cash_position)
    \/ APPrioritizeStep
    \/ APSortStep
    \/ APScheduleStep
    \/ APReturnStep

ARThread ==
    \/ \E cash_position \in ConcCash, objective \in ConcObjectives :
          ARBegin(cash_position, objective)
    \/ ARPrioritizeStep
    \/ ARSortStep
    \/ ARStrategyStep
    \/ ARReturnStep

NextConc ==
    \/ \E score \in ConcScores :
          SetSupplierImportance("S1", score)
              /\ UNCHANGED <<dbVars, wcVars, owVars, apVars, arVars>>
    \/ \E score \in ConcScores :
          SetCustomerImportance("K1", score)
              /\ UNCHANGED <<dbVars, wcVars, owVars, apVars, arVars>>
    \/ APThread /\ UNCHANGED <<dbVars, wcVars, owVars, impVars, arVars>>
    \/ ARThread /\ UNCHANGED <<dbVars, wcVars, owVars, impVars, apVars>>

SpecConc == InitConc /\ [][NextConc]_vars

(* The planner next to invoices.  The storage derives the forecast from the *)
(* invoices it holds: one row per due date, AR amounts as inflow and AP     *)
(* amounts as outflow.                                                      *)

RECURSIVE SumAmountDue(_, _)
SumAmountDue(invoices, d) ==
    IF Len(invoices) = 0 THEN 0
    ELSE (IF Head(invoices).dueDate = d THEN Head(invoices).amount ELSE 0)
         + SumAmountDue(Tail(invoices), d)

RECURSIVE ForecastRowsOf(_, _, _)
ForecastRowsOf(dates, payables, receivables) ==
    IF dates = {} THEN <<>>
    ELSE LET d == CHOOSE d \in dates : \A e \in dates : d <= e IN
         <<[date |-> d, inflow |-> SumAmountDue(receivables, d),
            outflow |-> SumAmountDue(payables, d)]>>
         \o ForecastRowsOf(dates \ {d}, payables, receivables)

StoredForecast(payables, receivables) ==
    ForecastRowsOf({payables[i].dueDate : i \in 1..Len(payables)}
                       \cup {receivables[i].dueDate : i \in 1..Len(receivables)},
                   payables, receivables)

\* payables held: overdue, due on a forecast day, due on the last day the
\* storage returns (today + horizon_days, past the forecast range)
PlanAPLists ==
    {<<>>,
     <<<<350000, 0, NoTerms, "S1">>>>,
     <<<<350000, 0, NoTerms, "S1">>, <<150000, 1, NoTerms, "S1">>>>,
     <<<<350000, 0, NoTerms, "S1">>, <<150000, 1, <<0, 2>>, "S1">>>>,
     <<<<350000, 0, NoTerms, "S1">>, <<10000, 2, <<1, 0>>, "S2">>>>,
     <<<<50000, -1, NoTerms, NoEntity>>, <<150000, 1, <<0, 2>>, "S1">>,
       <<150000, Horizon, NoTerms, "S1">>>>}

PlanARLists ==
    {<<>>,
     <<<<200000, 0, "K1">>>>,
     <<<<10000, -1, NoEntity>>, <<200000, 0, "K1">>, <<20000, 1, "K1">>>>,
     <<<<20000, 1, "K1">>, <<20000, Horizon, "K2">>>>}

PlanAPInputs == {[i \in 1..Len(s) |-> APRowOf(s[i], i)] : s \in PlanAPLists}
PlanARInputs == {[i \in 1..Len(s) |-> ARRowOf(s[i], i)] : s \in PlanARLists}

InitPlan ==
    /\ ap_invoices \in PlanAPInputs
    /\ ar_invoices \in PlanARInputs
    /\ forecast_data = StoredForecast(ap_invoices, ar_invoices)
    /\ InitOptimizers

NextPlan == \E scenario \in Scenarios : WCOptimize(scenario)

SpecPlan == InitPlan /\ [][NextPlan]_vars

(* optimize called from two threads at once, one call each *)

InitPlanConc ==
    /\ ap_invoices = [i \in 1..2 |->
                         APRowOf(<<<<350000, 0, NoTerms, "S1">>,
                                   <<150000, 1, NoTerms, "S1">>>>[i], i)]
    /\ ar_invoices = [i \in 1..1 |-> ARRowOf(<<<<200000, 0, "K1">>>>[i], i)]
    /\ forecast_data = StoredForecast(ap_invoices, ar_invoices)
    /\ InitOptimizers

PlannerOnly == UNCHANGED <<dbVars, owVars, impVars, apVars, arVars>>

NextPlanConc ==
    \/ \E t \in WCThreads, scenario \in Scenarios : WCBegin(t, scenario) /\ PlannerOnly
    \/ \E t \in WCThreads : WCLoadBuffer(t) /\ PlannerOnly
    \/ \E t \in WCThreads : WCStoreBuffer(t) /\ PlannerOnly
    \/ \E t \in WCThreads : WCSimulateStep(t) /\ PlannerOnly
    \/ \E t \in WCThreads : WCRecommendAPStep(t) /\ PlannerOnly
    \/ \E t \in WCThreads : WCRecommendARStep(t) /\ PlannerOnly
    \/ \E t \in WCThreads : WCReturnStep(t) /\ PlannerOnly

SpecPlanConc == InitPlanConc /\ [][NextPlanConc]_vars

----------------------------------------------------------------------------
(* Claims about WorkingCapitalOptimizer.optimize, checked under SpecWC *)

\* the raw balance of projection day i + 1 of a returned result r
RawBalance(r, i) ==
    r.cash_balance[i] + Pct(r.forecast[i].inflow, r.ar_adjustment)
                      - Pct(r.forecast[i].outflow, r.ap_adjustment)

\* C1: on every simulated day, a raw balance below min_cash_buffer records
\* borrowed = min_cash_buffer - rawBalance and the balance min_cash_buffer;
\* otherwise (equality included) borrowed is 0 and the balance is the raw
\* balance.  500000 - 600000 against a buffer of 100000 with both
\* adjustments 1 gives borrowed 200000 and balance 100000.
C1_BorrowingTrigger ==
    /\ wc_result.status = "ok" =>
         \A i \in 1..(Len(wc_result.cash_balance) - 1) :
            LET raw == RawBalance(wc_result, i) IN
            IF raw < min_cash_buffer
            THEN /\ wc_result.borrowing[i + 1] = min_cash_buffer - raw
                 /\ wc_result.cash_balance[i + 1] = min_cash_buffer
            ELSE /\ wc_result.borrowing[i + 1] = 0
                 /\ wc_result.cash_balance[i + 1] = raw
    /\ SimStep(500000, [date |-> 0, inflow |-> 0, outflow |-> 600000], 100, 100, 100000)
         = [balance |-> 100000, borrowed |-> 200000]

\* a returned projection with a day that borrows and a day whose raw balance
\* equals the buffer exactly
C1_Witness ==
    /\ wc_result.status = "ok"
    /\ \E i \in 1..(Len(wc_result.cash_balance) - 1) :
          RawBalance(wc_result, i) < min_cash_buffer /\ wc_result.borrowing[i + 1] > 0
    /\ \E i \in 1..(Len(wc_result.cash_balance) - 1) :
          RawBalance(wc_result, i) = min_cash_buffer /\ wc_result.borrowing[i + 1] = 0

\* what optimize returns to its caller (the locals kept for observation left out)
WCOutput(r) ==
    IF r.status = "ok"
    THEN [status |-> "ok", scenario |-> r.scenario, forecast |-> r.forecast,
          cash_balance |-> r.cash_balance,
          ap_recommendations |-> r.ap_recommendations,
          ar_recommendations |-> r.ar_recommendations,
          average_cash_balance |-> r.average_cash_balance,
          minimum_cash_balance |-> r.minimum_cash_balance,
          total_borrowing |-> r.total_borrowing,
          borrowing_cost |-> r.borrowing_cost]
    ELSE [status |-> r.status, scenario |-> r.scenario]

\* two successive optimize calls with the same scenario (the collaborator's
\* data and the date are fixed throughout a behaviour) return the same output
WCDeterministic ==
    (wc_calls >= 2 /\ wc_prev.scenario = wc_result.scenario)
        => WCOutput(wc_prev) = WCOutput(wc_result)

\* C3: min_cash_buffer = 100000 * 1.5^c * 0.7^a for c conservative and a
\* aggressive calls made so far, and a call simulates with that value: a day
\* that borrows ends on it
C3_CumulativeScaling ==
    /\ min_cash_buffer * 10^(nConservative + nAggressive)
          = DefaultMinCashBuffer * 15^nConservative * 7^nAggressive
    /\ wc_result.status = "ok" =>
         \A i \in 2..Len(wc_result.cash_balance) :
            wc_result.borrowing[i] > 0 =>
               wc_result.cash_balance[i] * 10^(nConservative + nAggressive)
                  = DefaultMinCashBuffer * 15^nConservative * 7^nAggressive

\* the recurrence applied to every row of the forecast, the last one included
RECURSIVE AllDaysBorrowing(_, _, _, _, _, _)
AllDaysBorrowing(forecast, i, prev, ar, ap, buffer) ==
    IF i > Len(forecast) THEN 0
    ELSE LET s == SimStep(prev, forecast[i], ar, ap, buffer)
         IN s.borrowed + AllDaysBorrowing(forecast, i + 1, s.balance, ar, ap, buffer)

\* C9: the flows of every forecast day, the last day of the horizon
\* included, are reflected in total_borrowing
C9_EveryDaySimulated ==
    wc_result.status = "ok" =>
        wc_result.total_borrowing =
            AllDaysBorrowing(wc_result.forecast, 1, InitialCash,
                             wc_result.ar_adjustment, wc_result.ap_adjustment,
                             min_cash_buffer)

\* C10: (arAdj, apAdj) is (0.95, 0.95) for base, (0.90, 1.00) for
\* conservative and (1.00, 0.80) for aggressive, the first simulated day is
\* computed with them, and the first call on a fresh planner simulates with
\* the buffer 100000, 150000 and 70000 respectively
C10_ScenarioTable ==
    wc_result.status = "ok" =>
        LET s == wc_result.scenario
            ar == IF s = "conservative" THEN 90 ELSE IF s = "aggressive" THEN 100 ELSE 95
            ap == IF s = "conservative" THEN 100 ELSE IF s = "aggressive" THEN 80 ELSE 95
            fresh == IF s = "conservative" THEN 150000
                     ELSE IF s = "aggressive" THEN 70000 ELSE 100000
            raw == InitialCash + Pct(wc_result.forecast[1].inflow, ar)
                               - Pct(wc_result.forecast[1].outflow, ap)
        IN /\ wc_result.ar_adjustment = ar
           /\ wc_result.ap_adjustment = ap
           /\ wc_result.cash_balance[2] =
                 (IF raw < min_cash_buffer THEN min_cash_buffer ELSE raw)
           /\ wc_calls = 1 =>
                 /\ wc_result.buffer_used = fresh
                 /\ \A i \in 2..Len(wc_result.cash_balance) :
                       wc_result.borrowing[i] > 0 => wc_result.cash_balance[i] = fresh

\* a first call with scenario 'aggressive' whose first day has an outflow and
\* whose projection borrows
C10_Witness ==
    /\ wc_calls = 1
    /\ wc_result.status = "ok"
    /\ wc_result.scenario = "aggressive"
    /\ wc_result.forecast[1].outflow > 0
    /\ wc_result.total_borrowing > 0

----------------------------------------------------------------------------
(* Claims about set_objective_weights, checked under SpecWeights *)

Abs(x) == IF x < 0 THEN 0 - x ELSE x

MissingRequiredKey(weights) == \E key \in RequiredKeys : key \notin DOMAIN weights
InputTotal(weights) == SumFun(weights, DOMAIN weights)

\* the stored weights are the input values divided by the input total, to
\* the resolution of the stored unit
StoresNormalized(weights, stored) ==
    /\ DOMAIN stored = DOMAIN weights
    /\ \A k \in DOMAIN weights :
          Abs(stored[k] * InputTotal(weights) - weights[k] * WScale)
             <= Abs(InputTotal(weights))

\* C5 as stated: the call fails exactly when a required key is missing
C5_FailsExactlyOnMissingKey ==
    ow_last.called =>
        ((ow_last.raised # "none") <=> MissingRequiredKey(ow_last.input))

\* C5 as amended: the call fails exactly when a required key is missing or
\* the supplied values sum to zero; a failed call leaves objective_weights
\* unchanged; every other call stores value / total for each supplied key
C5_FailsOnMissingKeyOrZeroTotal ==
    /\ [](ow_last.called =>
            /\ (ow_last.raised # "none") <=>
                  (\/ MissingRequiredKey(ow_last.input)
                   \/ InputTotal(ow_last.input) = 0)
            /\ ow_last.raised = "none" =>
                  StoresNormalized(ow_last.input, objective_weights))
    /\ [][ow_last'.raised # "none" => objective_weights' = objective_weights]_vars

\* a call that failed on a missing key after an earlier call had changed the weights
C5_Witness ==
    /\ ow_last.called
    /\ ow_last.raised = "ValueError"
    /\ objective_weights # InitWeights

\* C6: for a mapping with the four required keys and only positive values
\* the stored weights sum to 1 within 1e-6 and each is its input divided by
\* the input total
C6_Normalization ==
    (/\ ow_last.called
     /\ ~MissingRequiredKey(ow_last.input)
     /\ \A k \in DOMAIN ow_last.input : ow_last.input[k] > 0)
    => /\ ow_last.raised = "none"
       /\ Abs(SumFun(objective_weights, DOMAIN objective_weights) - WScale)
             <= WScale \div 10^6
       /\ StoresNormalized(ow_last.input, objective_weights)

\* a successful call with positive, unequal values and a key beyond the four
C6_Witness ==
    /\ ow_last.called
    /\ ow_last.raised = "none"
    /\ "other" \in DOMAIN ow_last.input
    /\ \A k \in DOMAIN ow_last.input : ow_last.input[k] > 0
    /\ ow_last.input["liquidity"] # ow_last.input["relationship"]

\* C7: each of the four named weights lies in [0,1] and the four sum to 1
\* (within 1e-6)
C7_WeightsInvariant ==
    /\ \A k \in RequiredKeys :
          objective_weights[k] >= 0 /\ objective_weights[k] <= WScale
    /\ Abs(SumFun(objective_weights, RequiredKeys) - WScale) <= WScale \div 10^6

----------------------------------------------------------------------------
(* Claims about the importance setters, checked under SpecSetters *)

LastMap == IF set_last.who = "supplier" THEN supplier_importance ELSE customer_importance

\* C4: a setter raises exactly when the score is outside [0,1] and then
\* leaves both maps as they were; for a score in [0,1] (0 and 1 included) it
\* stores the score under the id and changes no other entry; every stored
\* value lies in [0,1]
C4_SettersValidate ==
    /\ [](/\ set_last.called =>
               /\ set_last.raised <=> (set_last.score < 0 \/ set_last.score > 10)
               /\ ~set_last.raised =>
                     /\ set_last.id \in DOMAIN LastMap
                     /\ LastMap[set_last.id] = set_last.score
          /\ \A id \in DOMAIN supplier_importance :
                supplier_importance[id] >= 0 /\ supplier_importance[id] <= 10
          /\ \A id \in DOMAIN customer_importance :
                customer_importance[id] >= 0 /\ customer_importance[id] <= 10)
    /\ [][/\ set_last'.raised =>
               /\ supplier_importance' = supplier_importance
               /\ customer_importance' = customer_importance
          /\ \A id \in (DOMAIN supplier_importance) \ {set_last'.id} :
                /\ id \in DOMAIN supplier_importance'
                /\ supplier_importance'[id] = supplier_importance[id]
          /\ \A id \in (DOMAIN customer_importance) \ {set_last'.id} :
                /\ id \in DOMAIN customer_importance'
                /\ customer_importance'[id] = customer_importance[id]]_vars

\* a setter call rejected for a score above 1 while both maps hold entries,
\* one of them the boundary 0 and one the boundary 1
C4_Witness ==
    /\ set_last.called
    /\ set_last.raised
    /\ set_last.score > 10
    /\ \E id \in DOMAIN supplier_importance : supplier_importance[id] = 10
    /\ \E id \in DOMAIN customer_importance : customer_importance[id] = 0

----------------------------------------------------------------------------
(* Claims about repeated and concurrent optimize calls *)

\* an optimize_payment_schedule call that follows one with the same cash
\* position and importance map returns the same dict
APDeterministic ==
    (/\ ap_result.status = "ok"
     /\ ap_result'.cash_position = ap_result.cash_position
     /\ ap_result'.importance = ap_result.importance)
        => ap_result'.output = ap_result.output

\* an optimize_collection_strategy call that follows one with the same cash
\* position, objective and importance map returns the same dict
ARDeterministic ==
    (/\ ar_result.status = "ok"
     /\ ar_result'.cash_position = ar_result.cash_position
     /\ ar_result'.objective = ar_result.objective
     /\ ar_result'.importance = ar_result.importance)
        => ar_result'.output = ar_result.output

\* C2: calling any of the three optimize functions twice in succession on
\* the same instance with the same collaborator data, arguments, importance
\* map and date yields the same output both times
C2_Deterministic ==
    /\ []WCDeterministic
    /\ [][APDeterministic]_vars
    /\ [][ARDeterministic]_vars

SnapshotRead(run) ==
    \A id \in DOMAIN run.read_decision : run.read_decision[id] = run.read_priority[id]

\* C8: with a setter running concurrently, an optimize call uses for every
\* invoice the same importance value in its payment decision (collection
\* action selection) as it used for the invoice's priority score
C8_SnapshotReads ==
    /\ SnapshotRead(ap_run)
    /\ SnapshotRead(ar_run)

----------------------------------------------------------------------------
(* Claims about AccountsPayableOptimizer, checked under SpecAP *)

\* the position of a payable row in the list the collaborator returned
InputPosition(inv) == inv.id[2]

\* C11: _prioritize_invoices returns the input invoices, none dropped and
\* none duplicated, each with a numeric priority, in non-increasing priority
\* order, invoices of equal priority in their input order
C11_PrioritizerOrder ==
    ap_result.status = "ok" =>
        LET p == ap_result.prioritized IN
        /\ Len(p) = Len(ap_invoices)
        /\ \A i \in 1..Len(ap_invoices) :
              Cardinality({j \in 1..Len(p) : p[j].invoice = ap_invoices[i]}) = 1
        /\ \A j \in 1..Len(p) : p[j].priority \in Int
        /\ \A j \in 1..Len(p) : \A k \in (j + 1)..Len(p) :
              /\ p[j].priority >= p[k].priority
              /\ p[j].priority = p[k].priority
                    => InputPosition(p[j].invoice) < InputPosition(p[k].invoice)

\* a call that prioritized two different invoices of equal priority
C11_Witness ==
    /\ ap_result.status = "ok"
    /\ Len(ap_result.prioritized) = 2
    /\ ap_result.prioritized[1].priority = ap_result.prioritized[2].priority
    /\ ap_result.prioritized[1].invoice.dueDate # ap_result.prioritized[2].invoice.dueDate

\* the discount terms of a payable row, NoTerms when it carries none
TermsOf(inv) ==
    IF HasDiscount(inv) THEN <<inv.earlyPaymentDate, inv.discountRate>> ELSE NoTerms

\* two prioritized entries alike in discount terms and supplier importance
AlikeButDueDate(a, b, importance_map) ==
    /\ TermsOf(a.invoice) = TermsOf(b.invoice)
    /\ Importance(importance_map, a.supplier_id) = Importance(importance_map, b.supplier_id)

\* C12: of two payable invoices with the same discount terms, the same
\* days until discount and the same supplier importance, the one due sooner
\* never gets a strictly lower priority than the one due later
C12_DueSoonerNotLower ==
    ap_result.status = "ok" =>
        LET p == ap_result.prioritized IN
        \A j \in 1..Len(p), k \in 1..Len(p) :
            (/\ AlikeButDueDate(p[j], p[k], ap_result.importance)
             /\ p[j].invoice.dueDate < p[k].invoice.dueDate)
                => p[j].priority >= p[k].priority

\* a call that prioritized two invoices alike but for their due dates, one
\* in the first week and one in the second
C12_Witness ==
    /\ ap_result.status = "ok"
    /\ \E j \in 1..Len(ap_result.prioritized), k \in 1..Len(ap_result.prioritized) :
          /\ AlikeButDueDate(ap_result.prioritized[j], ap_result.prioritized[k],
                             ap_result.importance)
          /\ ap_result.prioritized[j].invoice.dueDate \in 0..6
          /\ ap_result.prioritized[k].invoice.dueDate \in 7..13
          /\ ap_result.prioritized[j].priority > ap_result.prioritized[k].priority

\* the remaining cash the decision on schedule entry i sees, as C14 states
\* it: the cash position less every earlier payment that was not delayed
RECURSIVE PaidBefore(_, _)
PaidBefore(schedule, i) ==
    IF i <= 1 THEN 0
    ELSE PaidBefore(schedule, i - 1)
         + (IF schedule[i - 1].payment_type # "delayed_cash_constraint"
            THEN schedule[i - 1].payment_amount ELSE 0)

CashSeen(result, i) == result.cash_position - PaidBefore(result.output.payment_schedule, i)

\* discount_benefit > opportunity_cost for a row with discount terms, both
\* sides in 1/10000 dollar
BenefitExceedsCost(inv) ==
    inv.amount * inv.discountRate * 100 > inv.amount * (inv.dueDate - inv.earlyPaymentDate)

\* C13: an invoice with discount terms is scheduled early_with_discount, on
\* the discount date for amount - amount * rate, exactly when
\* discount_benefit > opportunity_cost and remaining cash >= amount, and
\* otherwise on its due date for the full amount; amount 10000 at 2% paid 10
\* days early is discounted whenever remaining cash >= 10000
C13_DiscountDecision ==
    ap_result.status = "ok" =>
        LET schedule == ap_result.output.payment_schedule IN
        \A i \in 1..Len(schedule) :
            LET inv == ap_result.prioritized[i].invoice
                pay == schedule[i]
                taken == pay.payment_type = "early_with_discount"
            IN HasDiscount(inv) =>
                /\ pay.invoice_id = inv.id
                /\ taken <=> (BenefitExceedsCost(inv) /\ CashSeen(ap_result, i) >= inv.amount)
                /\ taken => /\ pay.payment_date = inv.earlyPaymentDate
                            /\ pay.payment_amount * 100 = inv.amount * (100 - inv.discountRate)
                /\ ~taken => /\ pay.payment_type = "on_due_date"
                             /\ pay.payment_date = inv.dueDate
                             /\ pay.payment_amount = inv.amount
                /\ (/\ inv.amount = 10000
                    /\ inv.discountRate = 2
                    /\ inv.dueDate - inv.earlyPaymentDate = 10
                    /\ CashSeen(ap_result, i) >= 10000)
                       => taken /\ pay.payment_amount = 9800

\* a call that took the discount on 10000 at 2% paid 10 days early and paid
\* in full an invoice whose discount does not exceed its opportunity cost
C13_Witness ==
    /\ ap_result.status = "ok"
    /\ \E i \in 1..Len(ap_result.output.payment_schedule) :
          /\ ap_result.output.payment_schedule[i].payment_type = "early_with_discount"
          /\ ap_result.output.payment_schedule[i].payment_amount = 9800
    /\ \E i \in 1..Len(ap_result.output.payment_schedule) :
          /\ HasDiscount(ap_result.prioritized[i].invoice)
          /\ ~BenefitExceedsCost(ap_result.prioritized[i].invoice)
          /\ CashSeen(ap_result, i) >= ap_result.prioritized[i].invoice.amount
          /\ ap_result.output.payment_schedule[i].payment_type = "on_due_date"

\* C14: the schedule lists the invoices in non-increasing priority order,
\* the decision on each sees the cash position less the payment_amount of
\* every earlier entry that is not delayed_cash_constraint, and
\* metrics.remaining_cash is the cash position less the payment_amount of
\* every entry that is not delayed_cash_constraint
C14_SequentialCash ==
    ap_result.status = "ok" =>
        LET schedule == ap_result.output.payment_schedule
            p == ap_result.prioritized
        IN /\ Len(schedule) = Len(p)
           /\ \A i \in 1..Len(schedule) :
                 /\ schedule[i].invoice_id = p[i].invoice.id
                 /\ schedule[i].priority = p[i].priority
                 /\ schedule[i] = APSchedulePayment(p[i], CashSeen(ap_result, i),
                                                    ap_result.importance).payment
           /\ \A i \in 1..Len(schedule) : \A k \in (i + 1)..Len(schedule) :
                 schedule[i].priority >= schedule[k].priority
           /\ ap_result.output.metrics.remaining_cash
                 = ap_result.cash_position - PaidBefore(schedule, Len(schedule) + 1)

\* a call whose first payment left too little cash for the second invoice,
\* which the cash position alone would have covered
C14_Witness ==
    /\ ap_result.status = "ok"
    /\ Len(ap_result.output.payment_schedule) = 2
    /\ ap_result.output.payment_schedule[1].payment_type # "delayed_cash_constraint"
    /\ ap_result.output.payment_schedule[2].payment_type = "delayed_cash_constraint"
    /\ ap_result.cash_position
          >= APMinCashBuffer + ap_result.output.payment_schedule[2].amount
    /\ ap_result.output.metrics.remaining_cash
          = ap_result.cash_position - ap_result.output.payment_schedule[1].payment_amount

\* amount * discountRate of the schedule entries paid early_with_discount
DiscountsTaken(result) ==
    SumSeq([i \in 1..Len(result.output.payment_schedule) |->
               IF result.output.payment_schedule[i].payment_type = "early_with_discount"
               THEN Pct(result.prioritized[i].invoice.amount,
                        result.prioritized[i].invoice.discountRate)
               ELSE 0])

\* C15: metrics.total_discount_captured is the sum of amount * discountRate
\* over the invoices scheduled early_with_discount, which is total_payable
\* less the payments of the schedule; an invoice with discount terms paid in
\* full on its due date adds nothing to it nor to discount_percentage
C15_DiscountCaptured ==
    ap_result.status = "ok" =>
        LET metrics == ap_result.output.metrics IN
        /\ metrics.total_discount_captured = DiscountsTaken(ap_result)
        /\ metrics.total_discount_captured
              = metrics.total_payable
                - SumField(ap_result.output.payment_schedule, "payment_amount")
        /\ DiscountsTaken(ap_result) = 0 => metrics.discount_percentage = 0

\* the priority C18 states for a payable row, the supplier importance in tenths
ClaimedAPPriority(inv, importance) ==
    LET base == CASE inv.dueDate < 0 -> 100
                  [] inv.dueDate >= 0 /\ inv.dueDate < 7 -> 90
                  [] inv.dueDate >= 7 /\ inv.dueDate < 14 -> 80
                  [] inv.dueDate >= 14 /\ inv.dueDate < 30 -> 70
                  [] OTHER -> 60
        discount == CASE TermsOf(inv) = NoTerms -> 0
                      [] TermsOf(inv) # NoTerms /\ inv.earlyPaymentDate < 0 -> 0
                      [] TermsOf(inv) # NoTerms /\ inv.earlyPaymentDate \in 0..6 ->
                            20 * inv.discountRate
                      [] OTHER -> 10 * inv.discountRate
    IN base + discount + 2 * importance

\* C18: the priority of a payable invoice is base + discount + 20 *
\* importance: base 100 / 90 / 80 / 70 / 60 for days until due below 0 / 7 /
\* 14 / 30 / otherwise; discount 0 without terms or with the discount date
\* passed, 20 * rate * 100 with the discount date within 7 days, else 10 *
\* rate * 100; importance 0.5 for a supplier that is unknown or unresolved;
\* the sum is not capped
C18_PriorityFormula ==
    ap_result.status = "ok" =>
        \A i \in 1..Len(ap_result.prioritized) :
            LET entry == ap_result.prioritized[i]
                importance ==
                    IF entry.supplier_id \in DOMAIN ap_result.importance
                    THEN ap_result.importance[entry.supplier_id]
                    ELSE 5
            IN entry.priority = ClaimedAPPriority(entry.invoice, importance)

\* a call that prioritized an invoice above 120 and an invoice whose
\* supplier could not be resolved
C18_Witness ==
    /\ ap_result.status = "ok"
    /\ \E i \in 1..Len(ap_result.prioritized) : ap_result.prioritized[i].priority > 120
    /\ \E i \in 1..Len(ap_result.prioritized) :
          /\ ap_result.prioritized[i].supplier_id = NoEntity
          /\ ap_result.prioritized[i].priority = 110

\* the cash left after the decision on schedule entry i: what the next
\* decision sees, or metrics.remaining_cash after the last one
CashAfter(result, i) ==
    IF i = Len(result.output.payment_schedule)
    THEN result.output.metrics.remaining_cash
    ELSE CashSeen(result, i + 1)

\* C19: an invoice without discount terms of a supplier of importance above
\* 0.8 is paid today as early_important_supplier when due within 5 days with
\* remaining cash >= amount, else on its due date, the amount deducted either
\* way; otherwise it is delayed_cash_constraint with the cash not reduced
\* when remaining cash < min_cash_buffer + amount, and else paid on its due
\* date with the amount deducted
C19_NoDiscountPolicy ==
    ap_result.status = "ok" =>
        \A i \in 1..Len(ap_result.output.payment_schedule) :
            LET inv == ap_result.prioritized[i].invoice
                pay == ap_result.output.payment_schedule[i]
                importance == Importance(ap_result.importance, pay.supplier_id)
                cash == CashSeen(ap_result, i)
                after == CashAfter(ap_result, i)
            IN TermsOf(inv) = NoTerms =>
                /\ pay.payment_amount = inv.amount
                /\ importance > 8 =>
                      /\ after = cash - inv.amount
                      /\ IF inv.dueDate <= 5 /\ cash >= inv.amount
                         THEN pay.payment_type = "early_important_supplier"
                              /\ pay.payment_date = 0
                         ELSE pay.payment_type = "on_due_date"
                              /\ pay.payment_date = inv.dueDate
                /\ importance <= 8 =>
                      IF cash < APMinCashBuffer + inv.amount
                      THEN /\ pay.payment_type = "delayed_cash_constraint"
                           /\ after = cash
                      ELSE /\ pay.payment_type = "on_due_date"
                           /\ pay.payment_date = inv.dueDate
                           /\ after = cash - inv.amount

\* a call without cash that delayed one invoice, leaving the cash as it was,
\* and then scheduled an invoice of a supplier of importance 0.9 on its due
\* date, taking the amount off the cash
C19_Witness ==
    /\ ap_result.status = "ok"
    /\ Len(ap_result.output.payment_schedule) = 2
    /\ ap_result.output.payment_schedule[1].payment_type = "delayed_cash_constraint"
    /\ CashSeen(ap_result, 2) = ap_result.cash_position
    /\ TermsOf(ap_result.prioritized[2].invoice) = NoTerms
    /\ Importance(ap_result.importance, ap_result.prioritized[2].supplier_id) = 9
    /\ ap_result.output.payment_schedule[2].payment_type = "on_due_date"
    /\ ap_result.output.metrics.remaining_cash
          = ap_result.cash_position - ap_result.prioritized[2].invoice.amount

\* min(10, max(1, round(30 * (1 - importance)))) for an importance in
\* tenths: 30 * (1 - importance) is within rounding distance of 30 - 3 * tenths
ClaimedDelayDays(importance) == Min(10, Max(1, 30 - 3 * importance))

\* C20: a payment scheduled as delayed_cash_constraint is dated d days past
\* the due date, d = min(10, max(1, round(30 * (1 - importance)))) for the
\* supplier's importance (0.5 by default), so d is between 1 and 10
C20_DelayLength ==
    ap_result.status = "ok" =>
        \A i \in 1..Len(ap_result.output.payment_schedule) :
            LET pay == ap_result.output.payment_schedule[i]
                importance == Importance(ap_result.importance, pay.supplier_id)
            IN pay.payment_type = "delayed_cash_constraint" =>
                /\ pay.payment_date = pay.due_date + ClaimedDelayDays(importance)
                /\ pay.payment_date - pay.due_date \in 1..10

----------------------------------------------------------------------------
(* Claims about empty collaborator data *)

\* optimize_payment_schedule on no invoices returns an empty schedule and
\* ratios of 0
APEmptyIsValid ==
    (ap_invoices = <<>> /\ ap_result.status # "none") =>
        /\ ap_result.status = "ok"
        /\ ap_result.output.payment_schedule = <<>>
        /\ ap_result.output.metrics.discount_percentage = 0
        /\ ap_result.output.metrics.on_time_percentage = 0

\* optimize_collection_strategy on no invoices returns an empty strategy and
\* a roi of 0
AREmptyIsValid ==
    (ar_invoices = <<>> /\ ar_result.status # "none") =>
        /\ ar_result.status = "ok"
        /\ ar_result.output.collection_strategy = <<>>
        /\ ar_result.output.metrics.roi = 0

\* WorkingCapitalOptimizer.optimize on an empty forecast returns a result
WCEmptyIsValid ==
    (forecast_data = <<>> /\ wc_result.status # "none") => wc_result.status = "ok"

\* C16: when the collaborator returns no invoices or an empty forecast, each
\* of the three optimize functions completes without raising and returns an
\* empty schedule, strategy or recommendation list with every ratio 0
C16_EmptyIsValid ==
    /\ APEmptyIsValid
    /\ AREmptyIsValid
    /\ WCEmptyIsValid

\* C27: for a cash position >= 0 the remaining cash of
\* optimize_payment_schedule is never negative after any invoice decision,
\* and metrics.remaining_cash >= 0: no payment is deducted that the
\* remaining cash cannot fund
C27_NoOverdraft ==
    ap_result.status = "ok" /\ ap_result.cash_position >= 0 =>
        /\ \A i \in 1..Len(ap_result.output.payment_schedule) : CashAfter(ap_result, i) >= 0
        /\ ap_result.output.metrics.remaining_cash >= 0

\* C28: no invoice is scheduled early_with_discount when its discount date
\* is before today: every early_with_discount entry has its payment date on
\* or after today
C28_NoLapsedDiscount ==
    ap_result.status = "ok" =>
        \A i \in 1..Len(ap_result.output.payment_schedule) :
            LET payment == ap_result.output.payment_schedule[i]
                inv == ap_result.prioritized[i].invoice
            IN payment.payment_type = "early_with_discount" =>
                  /\ inv.earlyPaymentDate >= 0
                  /\ payment.payment_date >= 0

----------------------------------------------------------------------------
(* Claims about the planner's recommendations, checked under SpecPlan *)

\* the position in the forecast of the day of a due date, 0 when there is none
ForecastDay(result, due_date) ==
    IF \E d \in 1..Len(result.forecast) : result.forecast[d].date = due_date
    THEN CHOOSE d \in 1..Len(result.forecast) : result.forecast[d].date = due_date
    ELSE 0

RecommendationsFor(recommendations, id) ==
    {k \in 1..Len(recommendations) : recommendations[k].invoice_id = id}

TheRecommendation(recommendations, id) ==
    recommendations[CHOOSE k \in 1..Len(recommendations) : recommendations[k].invoice_id = id]

\* C25: an invoice whose due date is forecast day d of the projection gets
\* one recommendation: a payable 'delay', to due date + 7 days, exactly when
\* the projected balance at d is below min_cash_buffer + amount; a
\* receivable 'accelerate' exactly when the balance at d is below
\* min_cash_buffer and 'standard' otherwise.  An invoice whose due date is
\* no forecast day gets no recommendation
C25_RecommendationPass ==
    wc_result.status = "ok" =>
        LET balance == wc_result.cash_balance
            buffer == wc_result.buffer_used
            ap_recs == wc_result.ap_recommendations
            ar_recs == wc_result.ar_recommendations
        IN /\ \A i \in 1..Len(ap_invoices) :
                 LET inv == ap_invoices[i]
                     d == ForecastDay(wc_result, inv.dueDate)
                 IN /\ d = 0 => RecommendationsFor(ap_recs, inv.id) = {}
                    /\ d \in 1..Len(balance) =>
                          /\ Cardinality(RecommendationsFor(ap_recs, inv.id)) = 1
                          /\ LET rec == TheRecommendation(ap_recs, inv.id) IN
                             /\ rec.action = "delay" <=> balance[d] < buffer + inv.amount
                             /\ rec.action = "delay" =>
                                   rec.recommended_payment_date = inv.dueDate + 7
           /\ \A i \in 1..Len(ar_invoices) :
                 LET inv == ar_invoices[i]
                     d == ForecastDay(wc_result, inv.dueDate)
                 IN /\ d = 0 => RecommendationsFor(ar_recs, inv.id) = {}
                    /\ d \in 1..Len(balance) =>
                          /\ Cardinality(RecommendationsFor(ar_recs, inv.id)) = 1
                          /\ TheRecommendation(ar_recs, inv.id).action
                                = IF balance[d] < buffer THEN "accelerate" ELSE "standard"

\* a plan that delays one payable by 7 days, pays another on time, gives a
\* receivable the standard process and leaves an overdue invoice without a
\* recommendation
C25_Witness ==
    /\ wc_result.status = "ok"
    /\ \E k \in 1..Len(wc_result.ap_recommendations) :
          LET rec == wc_result.ap_recommendations[k] IN
          rec.action = "delay" /\ rec.recommended_payment_date = rec.due_date + 7
    /\ \E k \in 1..Len(wc_result.ap_recommendations) :
          wc_result.ap_recommendations[k].action = "pay_on_time"
    /\ \E k \in 1..Len(wc_result.ar_recommendations) :
          wc_result.ar_recommendations[k].action = "standard"
    /\ \E i \in 1..Len(ar_invoices) :
          /\ ar_invoices[i].dueDate < 0
          /\ RecommendationsFor(wc_result.ar_recommendations, ar_invoices[i].id) = {}

\* C26: in every projection the day-0 balance is the initial cash 500000
\* and the balance of every later day is at least the min_cash_buffer of
\* the call, so minimum_cash_balance >= min(500000, min_cash_buffer); an
\* 'accelerate' recommendation is made only for an invoice due on forecast
\* day 0 and only when min_cash_buffer exceeds 500000, never on the first
\* call of a new planner
C26_ProjectionFloor ==
    wc_result.status = "ok" =>
        LET balance == wc_result.cash_balance
            buffer == wc_result.buffer_used
            ar_recs == wc_result.ar_recommendations
        IN /\ balance[1] = 500000
           /\ \A d \in 2..Len(balance) : balance[d] >= buffer
           /\ wc_result.minimum_cash_balance >= Min(500000, buffer)
           /\ \A k \in 1..Len(ar_recs) :
                 ar_recs[k].action = "accelerate" =>
                     /\ ar_recs[k].due_date = wc_result.forecast[1].date
                     /\ buffer > 500000
                     /\ wc_calls > 1

\* the fourth conservative call of a planner: the buffer is 506250, above
\* the day-0 balance, and the receivable due today is accelerated
C26_Witness ==
    /\ wc_result.status = "ok"
    /\ wc_calls = 4
    /\ wc_result.buffer_used = 506250
    /\ \E k \in 1..Len(wc_result.ar_recommendations) :
          /\ wc_result.ar_recommendations[k].action = "accelerate"
          /\ wc_result.ar_recommendations[k].due_date = 0
    /\ \E d \in 2..Len(wc_result.cash_balance) : wc_result.cash_balance[d] = 506250

----------------------------------------------------------------------------
(* Claims about overlapping planner calls, checked under SpecPlanConc *)

\* C30: of two optimize calls that overlap, each compares balances with one
\* min_cash_buffer value only, the value its own scenario branch left, on
\* every simulated day and in its recommendations; when both have returned
\* min_cash_buffer is its prior value times the factors of both scenarios
C30_NoInterference ==
    /\ \A t \in WCThreads :
          /\ Cardinality(wc_run[t].used) <= 1
          /\ wc_run[t].scenario # "base" => wc_run[t].used \subseteq {wc_run[t].own_buffer}
    /\ (\A t \in WCThreads : wc_run[t].result.status = "ok") =>
          min_cash_buffer * 100
              = DefaultMinCashBuffer * ScenarioAdjust(wc_run[1].result.scenario).buf10
                                     * ScenarioAdjust(wc_run[2].result.scenario).buf10

----------------------------------------------------------------------------
(* Claims about AccountsReceivableOptimizer, checked under SpecAR *)

ActionTypes(actions) == {actions[k].type : k \in 1..Len(actions)}

ActionOfType(actions, type) ==
    actions[CHOOSE k \in 1..Len(actions) : actions[k].type = type]

\* the action types C17 names for an invoice, importance in tenths
ClaimedActionTypes(amount, days_overdue, days_until_due, importance, priority) ==
    IF days_overdue > 90
    THEN IF importance < 4 THEN {"collection_agency"} ELSE {"personal_visit"}
    ELSE IF days_overdue > 60
    THEN {"phone_call"} \cup (IF importance < 7 THEN {"late_payment_penalty"} ELSE {})
    ELSE IF days_overdue > 30 THEN {"reminder_email", "phone_call"}
    ELSE IF days_overdue > 0 THEN {"reminder_email"}
    ELSE IF days_until_due < 7 THEN {"reminder_email"}
    ELSE IF priority > 70 /\ amount > 10000 THEN {"early_payment_discount"}
    ELSE {}

\* C17: the actions of an invoice are those of exactly one bracket, tested
\* most overdue first: over 90 days collection_agency (cost 25% of the
\* amount) below importance 0.4 and personal_visit otherwise; over 60
\* phone_call, with late_payment_penalty exactly below importance 0.7; over
\* 30 reminder_email at once and phone_call 3 days after it; over 0
\* reminder_email; not overdue and due within 7 days reminder_email with
\* relationship impact -0.05; not overdue with priority over 70 and amount
\* over 10000 early_payment_discount costing 1% of the amount; else nothing
C17_ActionTable ==
    ar_result.status = "ok" =>
        \A i \in 1..Len(ar_result.output.collection_strategy) :
            LET inv == ar_result.prioritized[i].invoice
                strategy == ar_result.output.collection_strategy[i]
                actions == strategy.actions
                importance == Importance(ar_result.importance, strategy.customer_id)
                days_overdue == 0 - inv.dueDate
                types == ClaimedActionTypes(inv.amount, days_overdue, inv.dueDate,
                                            importance, strategy.priority)
            IN /\ strategy.invoice_id = inv.id
               /\ ActionTypes(actions) = types
               /\ Len(actions) = Cardinality(types)
               /\ "collection_agency" \in types =>
                     ActionOfType(actions, "collection_agency").cost * 4 = inv.amount
               /\ days_overdue > 30 /\ days_overdue <= 60 =>
                     /\ ActionOfType(actions, "reminder_email").timing = "immediately"
                     /\ ActionOfType(actions, "phone_call").timing = "3_days_after_reminder"
               /\ days_overdue <= 0 /\ "reminder_email" \in types =>
                     ActionOfType(actions, "reminder_email").relationship_impact = -50
               /\ "early_payment_discount" \in types =>
                     ActionOfType(actions, "early_payment_discount").cost * 100 = inv.amount

\* a call for a customer of importance 0.2 with an invoice 95 days overdue,
\* answered by the single action collection_agency at a quarter of the amount
C17_Witness ==
    /\ ar_result.status = "ok"
    /\ \E i \in 1..Len(ar_result.output.collection_strategy) :
          LET strategy == ar_result.output.collection_strategy[i] IN
          /\ strategy.days_overdue = 95
          /\ Importance(ar_result.importance, strategy.customer_id) = 2
          /\ Len(strategy.actions) = 1
          /\ strategy.actions[1].type = "collection_agency"
          /\ strategy.actions[1].cost * 4 = strategy.amount

ClaimedARBase(days_overdue, days_until_due) ==
    IF days_overdue > 90 THEN 100
    ELSE IF days_overdue > 60 THEN 90
    ELSE IF days_overdue > 30 THEN 80
    ELSE IF days_overdue > 0 THEN 70
    ELSE IF days_until_due < 7 THEN 60
    ELSE IF days_until_due < 14 THEN 50
    ELSE 40

\* the priority C21 states for a receivable, importance in tenths
ClaimedARPriority(inv, importance) ==
    ClaimedARBase(0 - inv.dueDate, inv.dueDate)
    + (IF inv.amount >= 100000 THEN 20 ELSE inv.amount \div 5000)
    + ((10 - importance) * 20) \div 10

ARImportanceAt(result, i) ==
    Importance(result.importance, result.prioritized[i].customer_id)

\* C21: every receivable gets priority base + min(20, amount / 5000) +
\* (1 - importance) * 20 with base 100 / 90 / 80 / 70 for more than 90 / 60 /
\* 30 / 0 days overdue and 60 / 50 / 40 for due in fewer than 7 / fewer than
\* 14 / more days; the list is sorted by priority descending; of two
\* receivables alike but for the customer, the one of the less important
\* customer never has the lower priority
C21_ReceivablePriority ==
    ar_result.status = "ok" =>
        LET p == ar_result.prioritized
            strategy == ar_result.output.collection_strategy
        IN /\ Len(p) = Len(ar_invoices)
           /\ {p[i].invoice : i \in 1..Len(p)}
                 = {ar_invoices[i] : i \in 1..Len(ar_invoices)}
           /\ \A i \in 1..Len(p) :
                 /\ p[i].priority
                       = ClaimedARPriority(p[i].invoice, ARImportanceAt(ar_result, i))
                 /\ strategy[i].priority = p[i].priority
           /\ \A i \in 1..(Len(p) - 1) : p[i].priority >= p[i + 1].priority
           /\ \A i, j \in 1..Len(p) :
                 /\ p[i].invoice.amount = p[j].invoice.amount
                 /\ p[i].invoice.dueDate = p[j].invoice.dueDate
                 /\ ARImportanceAt(ar_result, i) < ARImportanceAt(ar_result, j)
                 => p[i].priority >= p[j].priority

\* two receivables of the same amount and due date, the customer of
\* importance 0.2 returned ahead of the customer of importance 0.5 although
\* the storage returned it second
C21_Witness ==
    /\ ar_result.status = "ok"
    /\ Len(ar_result.prioritized) = 2
    /\ LET p == ar_result.prioritized IN
       /\ p[1].invoice.amount = p[2].invoice.amount
       /\ p[1].invoice.dueDate = p[2].invoice.dueDate
       /\ ARImportanceAt(ar_result, 1) = 2
       /\ ARImportanceAt(ar_result, 2) = 5
       /\ p[1].priority > p[2].priority
       /\ p[1].invoice = ar_invoices[2]

\* the weight triple C22 states: cash_acceleration, relationship, cost in tenths
ClaimedWeights(objective) ==
    CASE objective = "cash_flow" -> <<7, 1, 2>>
      [] objective = "relationship" -> <<3, 6, 1>>
      [] objective = "balanced" -> <<5, 3, 2>>

\* C22: every returned action carries score = w.cash_acceleration *
\* expected_benefit + w.relationship * relationship_impact * 1000 - w.cost *
\* cost with w = (0.7, 0.1, 0.2) for cash_flow, (0.3, 0.6, 0.1) for
\* relationship and (0.5, 0.3, 0.2) for balanced, and the actions of an
\* invoice are ordered by score, highest first
C22_ActionScoring ==
    ar_result.status = "ok" =>
        \A i \in 1..Len(ar_result.output.collection_strategy) :
            LET actions == ar_result.output.collection_strategy[i].actions IN
            /\ ar_result.objective \in {"cash_flow", "relationship", "balanced"} =>
                  LET w == ClaimedWeights(ar_result.objective) IN
                  \A k \in 1..Len(actions) :
                      actions[k].score
                          = w[1] * actions[k].expected_benefit
                            + w[2] * actions[k].relationship_impact
                            - w[3] * actions[k].cost
            /\ \A k \in 1..(Len(actions) - 1) : actions[k].score >= actions[k + 1].score

\* a cash_flow call for an invoice 90 days overdue: the penalty, appended
\* second, is returned first with the strictly higher score
C22_Witness ==
    /\ ar_result.status = "ok"
    /\ ar_result.objective = "cash_flow"
    /\ \E i \in 1..Len(ar_result.output.collection_strategy) :
          LET actions == ar_result.output.collection_strategy[i].actions IN
          /\ Len(actions) = 2
          /\ actions[1].type = "late_payment_penalty"
          /\ actions[2].type = "phone_call"
          /\ actions[1].score > actions[2].score

\* C23: for an invoice more than 60 and at most 90 days overdue of a
\* customer of importance below 0.7 the late_payment_penalty action costs 0
\* and has expected benefit 0.02 * amount, one month of penalty at 2%
C23_PenaltySize ==
    ar_result.status = "ok" =>
        \A i \in 1..Len(ar_result.output.collection_strategy) :
            LET strategy == ar_result.output.collection_strategy[i] IN
            /\ strategy.days_overdue > 60
            /\ strategy.days_overdue <= 90
            /\ Importance(ar_result.importance, strategy.customer_id) < 7
            => /\ "late_payment_penalty" \in ActionTypes(strategy.actions)
               /\ LET penalty == ActionOfType(strategy.actions, "late_payment_penalty") IN
                  /\ penalty.cost = 0
                  /\ penalty.expected_benefit * 100 = 2 * strategy.amount

\* the days C24 states an action of the type takes off
ClaimedReduction(type) ==
    CASE type = "reminder_email" -> 2
      [] type = "phone_call" -> 5
      [] type = "personal_visit" -> 10
      [] type = "early_payment_discount" -> 15
      [] type = "late_payment_penalty" -> 3
      [] type = "collection_agency" -> 20

TotalReduction(actions) ==
    SumSeq([k \in 1..Len(actions) |-> ClaimedReduction(actions[k].type)])

ImpactsNotYetDue(strategy) ==
    SumSeq([i \in 1..Len(strategy) |->
               IF strategy[i].due_date > 0 THEN strategy[i].financial_impact ELSE 0])

\* C29: every entry of the collection strategy has its expected collection
\* date on or after today and financial_impact >= 0: 0 when the expected
\* date is on or after the due date, else amount * daily borrowing rate *
\* days between the two; an overdue invoice has impact 0, so that
\* total_financial_impact and roi come from the invoices not yet due
C29_ImpactBounds ==
    ar_result.status = "ok" =>
        LET strategy == ar_result.output.collection_strategy
            metrics == ar_result.output.metrics
        IN /\ \A i \in 1..Len(strategy) :
                 LET e == strategy[i] IN
                 /\ e.expected_collection_date >= 0
                 /\ e.financial_impact >= 0
                 /\ e.expected_collection_date >= e.due_date => e.financial_impact = 0
                 /\ e.expected_collection_date < e.due_date =>
                       e.financial_impact * BorrowingRateDen
                           = e.amount * (e.due_date - e.expected_collection_date)
                 /\ e.due_date < 0 => e.financial_impact = 0
           /\ metrics.total_financial_impact = ImpactsNotYetDue(strategy)
           /\ metrics.roi = IF metrics.total_actions_cost > 0
                            THEN (ImpactsNotYetDue(strategy) * 100)
                                     \div metrics.total_actions_cost
                            ELSE 0

\* one call returning an overdue invoice, impact 0, and an invoice not yet
\* due collected ahead of its due date, impact positive
C29_Witness ==
    /\ ar_result.status = "ok"
    /\ \E i, j \in 1..Len(ar_result.output.collection_strategy) :
          LET a == ar_result.output.collection_strategy[i]
              b == ar_result.output.collection_strategy[j]
          IN /\ a.due_date < 0
             /\ a.financial_impact = 0
             /\ b.expected_collection_date < b.due_date
             /\ b.financial_impact > 0
             /\ ar_result.output.metrics.total_financial_impact = b.financial_impact

====
